---- MODULE Spec2Model ----
(***************************************************************************)
(* elb-logs-to-cloudwatch: the object pipeline (ProcessLogs) and the       *)
(* fan-out scheduler (processS3Objects).                                   *)
(*                                                                         *)
(* Spec      one run of CloudWatchLogProcessor.ProcessLogs: the main       *)
(*           goroutine (GetObject, processRecords, close, wg.Wait), the    *)
(*           decompression goroutine writing into the io.Pipe, and the     *)
(*           accumulator goroutine ranging over entryChan.                 *)
(* SpecFan   one run of Handler.processS3Objects: the launcher loop, one   *)
(*           goroutine per object, the wg.Wait/close(errs) goroutine and   *)
(*           the range over errs.  FairSpecFan adds the scheduler's        *)
(*           fairness.                                                     *)
(* SpecConfig  start-up and one record: LoadConfigFromEnv, NewLogProcessor *)
(*           with NewFields on the FIELDS setting, then GetObject and      *)
(*           recordToLogEntry on a record, with the field projection.      *)
(*                                                                         *)
(* A decompressed line is abstracted to what the code looks at: its token  *)
(* count, its timestamp (0: not RFC3339) and the length of the JSON        *)
(* message its projected fields marshal to.                                *)
(***************************************************************************)
EXTENDS Integers, Sequences, FiniteSets, TLC

\* ---------------------------------------------------------------- bounds
\* maxBatchCount is 10_000 in processor.go:48; the model runs it scaled down.
maxBatchCount == 2
\* concurrency is 10 in the handler; the model runs it scaled down.
concurrency == 2
\* Most lines one object decompresses to.
MaxLines == 4
\* Most objects handed to processS3Objects.
MaxObjects == 3
\* Most symbols (field names, commas, blanks) in the FIELDS setting.
MaxConfigLen == 4
\* Most times the same record is given to recordToLogEntry.
MaxCalls == 2
\* Most goroutines that use one SafeCounter at a time.
MaxTasks == 3
\* Most runs of EnsureLogGroupAndLogStreamExists against one sink.
MaxRuns == 2
\* Most symbols after the scheme in the URL given to HandleS3URL.
MaxUrlLen == 3
\* Most pages of one listing.
MaxPages == 2

\* ------------------------------------------------------ program constants
maxBatchSize == 1048576
eventOverhead == 26
numFieldNames == 30

\* int(float64(maxBatchCount)*1.25)
entryChanCap == (maxBatchCount * 125) \div 100

\* ------------------------------------------------------------ input sets
\* Timestamps in Unix milliseconds; BadTime stands for a token time.Parse rejects.
BadTime == 0
Times == {1, 2}
\* Lengths of the marshalled message: "{}", a large one, one over the limit alone.
MsgLens == {2, 600000, 1048576}

\* The lines an object may hold: well-formed ones, one a token short, and one
\* whose time token does not parse.
Lines ==
    [tokens : {numFieldNames}, time : Times, len : MsgLens]
        \cup {[tokens |-> numFieldNames - 1, time |-> 1, len |-> 2],
              [tokens |-> numFieldNames, time |-> BadTime, len |-> 2]}

NoEntry == [Timestamp |-> 0, MessageLen |-> 0]

\* an error value that is no error: "none" (nothing returned yet) or "nil"
NoError(what) == [msg |-> what, Bucket |-> "", Key |-> 0, cause |-> <<>>]

VARIABLES
    \* ProcessLogs
    plPc,             \* position of ProcessLogs' own goroutine
    plRet,            \* its return value: "none" (not yet), "nil", "err"
    objErr,           \* what GetObject returned: "none" (not yet), "nil", "err"
    prPc,             \* position inside processRecords: "Read" or "Send"
    prEntry,          \* the entry processRecords is about to send
    prErr,            \* what processRecords returned: "none", "nil", or an error
    gzPc,             \* position of the decompression goroutine; at its end
                      \* "done" (after writer.Close) or "failed" (after CloseWithError)
    gzLines,          \* lines decompressed so far
    pipeBuf,          \* the io.Pipe: the write in progress (at most one)
    pipeState,        \* "open", "closed" (the reader gets io.EOF), "closedErr"
                      \* (the reader gets another error)
    entryChan,        \* buffered channel of LogEntry
    chanClosed,       \* close(entryChan) done
    accPc,            \* position of the accumulator goroutine
    events,           \* its pending batch
    currentBatchSize, \* its running size estimate
    counter,          \* SafeCounter.v
    sent,             \* history: the PutLogEvents calls, with their results
    linesRead,        \* history: the records csvReader.Read returned
    enqueued,         \* history: the entries put on entryChan
    \* processS3Objects
    s3Objects,        \* the argument
    fsPc,             \* position of processS3Objects' own goroutine
    fsNext,           \* index of the next object to launch
    fsRet,            \* its return value: NoError("none"), NoError("nil") or an error
    task,             \* position of each object goroutine
    plResult,         \* history: what each ProcessLogs call returned
    permits,          \* len(concurrent)
    wgCount,          \* the WaitGroup counter
    wtPc,             \* position of the wg.Wait/close(errs) goroutine
    errsClosed,       \* close(errs) done
    received,         \* history: the senders whose error was received from errs, in order
    \* start-up and projection
    envGroup,         \* LOG_GROUP_NAME is set
    envStream,        \* LOG_STREAM_NAME is set
    envFields,        \* FIELDS, as a sequence of symbols
    nhPc,             \* position of NewHandler and of the processing after it
    nhErr,            \* what NewHandler returned: "none" (not yet), "nil" or an error
    nfResult,         \* history: what NewFields returned
    fieldStore,       \* lp.fieldStore
    included,         \* what IncludeField answered for each index asked
    fetches,          \* number of GetObject calls
    givenRecord,      \* the record given to recordToLogEntry
    entryCalls,       \* history: what each recordToLogEntry call returned
    \* SafeCounter under concurrent use
    mu,               \* c.mu: 0 when unlocked, else the goroutine that locked it
    v,                \* c.v
    scStart,          \* history: c.v before the first call
    scPc,             \* position of each goroutine inside its call
    scOp,             \* the call of each goroutine: Increment(value) or Value()
    scTmp,            \* c.v as each goroutine read it for c.v += value
    scRet,            \* what Value() returned to each goroutine (-1: nothing yet)
    \* EnsureLogGroupAndLogStreamExists
    egPc,             \* position: the API call about to be made, or "returned"
    egGroups,         \* the log group names the sink holds
    egStreams,        \* the log stream names the sink holds in the group
    egCalls,          \* history: the API calls, with run, result and outcome
    egRets,           \* history: what each finished run returned
    \* HandleS3URL
    huPc,             \* position of HandleS3URL
    huUrl,            \* the argument, as a sequence of symbols
    huBucket,         \* bucket
    huPrefix,         \* prefix
    huToken,          \* continuationToken (0: nil)
    huRequests,       \* history: the ListObjectsV2 inputs
    huResponses,      \* history: the ListObjectsV2 outputs
    huObjects,        \* s3Objects as built so far
    huRet             \* what HandleS3URL returned: "none" (not yet), "nil" or an error

plVars ==
    <<plPc, plRet, objErr, prPc, prEntry, prErr, gzPc, gzLines, pipeBuf, pipeState,
      entryChan, chanClosed, accPc, events, currentBatchSize, counter, sent,
      linesRead, enqueued>>

fsVars ==
    <<s3Objects, fsPc, fsNext, fsRet, task, plResult, permits, wgCount, wtPc,
      errsClosed, received>>

cfVars ==
    <<envGroup, envStream, envFields, nhPc, nhErr, nfResult, fieldStore, included,
      fetches, givenRecord, entryCalls>>

scVars == <<mu, v, scStart, scPc, scOp, scTmp, scRet>>

egVars == <<egPc, egGroups, egStreams, egCalls, egRets>>

huVars ==
    <<huPc, huUrl, huBucket, huPrefix, huToken, huRequests, huResponses, huObjects,
      huRet>>

vars == <<plVars, fsVars, cfVars, scVars, egVars, huVars>>

\* ================================================================ helpers

RECURSIVE SumSizes(_)
\* EstimateEventSize: len(*event.Message) + 26
EstimateEventSize(event) == event.MessageLen + eventOverhead

SumSizes(evs) ==
    IF evs = <<>> THEN 0 ELSE EstimateEventSize(Head(evs)) + SumSizes(Tail(evs))

\* a less function that orders the wrong way round
lessDescending(a, b) == a.Timestamp > b.Timestamp

\* the less function given to sort.Slice
less(a, b) == a.Timestamp < b.Timestamp

\* sort.Slice(events, less): not stable, so it may return any ordering of the
\* same events in which no later element is less than an earlier one.
SortSlice(evs) ==
    { s \in { [i \in 1..Len(evs) |-> evs[p[i]]] : p \in Permutations(1..Len(evs)) } :
        \A i \in 1..Len(s) : \A j \in 1..Len(s) : i < j => ~less(s[j], s[i]) }

\* recordToLogEntry: the checks, then the LogEntry
recordToLogEntry(record) ==
    IF record.tokens # numFieldNames
    THEN [err |-> "format", entry |-> NoEntry]
    ELSE IF record.time = BadTime
    THEN [err |-> "timestamp", entry |-> NoEntry]
    ELSE [err |-> "nil",
          entry |-> [Timestamp |-> record.time, MessageLen |-> record.len]]

\* a flush test that lets one event too many in
NeedsFlushOffByOne(evs, size, eventSize) ==
    Len(evs) > 0 /\ (size + eventSize > maxBatchSize \/ Len(evs) > maxBatchCount)

\* a flush test that forgets the size limit
NeedsFlushCountOnly(evs, size, eventSize) ==
    Len(evs) > 0 /\ Len(evs) >= maxBatchCount

\* a flush test that cuts the batch one event early
NeedsFlushEarly(evs, size, eventSize) ==
    Len(evs) > 0 /\ (size + eventSize > maxBatchSize \/ Len(evs) + 1 >= maxBatchCount)

\* a flush test that looks at the pending size without the new event
NeedsFlushPendingSize(evs, size, eventSize) ==
    Len(evs) > 0 /\ (size > maxBatchSize \/ Len(evs) >= maxBatchCount)

\* a flush test that sends whatever is pending
NeedsFlushAlways(evs, size, eventSize) == Len(evs) > 0

\* the accumulator's test before appending an event
NeedsFlush(evs, size, eventSize) ==
    Len(evs) > 0 /\ (size + eventSize > maxBatchSize \/ Len(evs) >= maxBatchCount)

\* ===================================================== fields and records

\* the column names of the access log, in order
fieldNames ==
    << "type", "time", "elb", "client:port", "target:port",
       "request_processing_time", "target_processing_time",
       "response_processing_time", "elb_status_code", "target_status_code",
       "received_bytes", "sent_bytes", "request", "user_agent", "ssl_cipher",
       "ssl_protocol", "target_group_arn", "trace_id", "domain_name",
       "chosen_cert_arn", "matched_rule_priority", "request_creation_time",
       "actions_executed", "redirect_url", "error_reason", "target:port_list",
       "target_status_code_list", "classification", "classification_reason",
       "conn_trace_id" >>

\* The FIELDS setting is a sequence of symbols: a word (a run of characters
\* with no comma and no blank in it), a comma or a blank.  No two of these
\* words put side by side spell a column name.
Words == {"type", "time", "conn_trace_id", "bogus_field"}
Symbols == Words \cup {",", " "}

RECURSIVE SeqsUpTo(_, _)
SeqsUpTo(S, n) ==
    IF n = 0 THEN {<<>>}
    ELSE LET shorter == SeqsUpTo(S, n - 1)
         IN  shorter \cup { Append(q, x) : q \in { t \in shorter : Len(t) = n - 1 }, x \in S }

FieldsConfigs == SeqsUpTo(Symbols, MaxConfigLen)

\* strings.Split(s, ","): the pieces between the commas, empty ones included
RECURSIVE Split(_)
Split(str) ==
    IF \A k \in 1..Len(str) : str[k] # ","
    THEN <<str>>
    ELSE LET c == CHOOSE k \in 1..Len(str) :
                    str[k] = "," /\ \A j \in 1..(k - 1) : str[j] # ","
         IN  <<SubSeq(str, 1, c - 1)>> \o Split(SubSeq(str, c + 1, Len(str)))

\* a trim that leaves the blanks in
NoTrim(str) == str

\* strings.TrimSpace: the blanks at both ends removed
RECURSIVE TrimSpace(_)
TrimSpace(str) ==
    IF str = <<>> THEN str
    ELSE IF Head(str) = " " THEN TrimSpace(Tail(str))
    ELSE IF str[Len(str)] = " " THEN TrimSpace(SubSeq(str, 1, Len(str) - 1))
    ELSE str

\* validFieldMap: the keys are the column names
validFieldMap == { fieldNames[i] : i \in 1..Len(fieldNames) }

\* _, ok := validFieldMap[field]
IsValidField(field) == Len(field) = 1 /\ field[1] \in validFieldMap

\* fmt.Errorf("invalid field name '%s' provided", field)
InvalidFieldError(field) == [msg |-> "invalid field name", token |-> field]

NilError == [msg |-> "nil", token |-> <<>>]

\* the *IncludedFields NewFields returns: nil, or a map with these keys true
NilFields == [isNil |-> TRUE, includedFieldsMap |-> {}]
FieldsOf(names) == [isNil |-> FALSE, includedFieldsMap |-> names]

\* a loop that goes on after an unknown name and reports the last one
RECURSIVE ScanFieldsReportLast(_, _)
ScanFieldsReportLast(fields, includedFieldsMap) ==
    IF fields = <<>> THEN [fs |-> FieldsOf(includedFieldsMap), err |-> NilError]
    ELSE LET field == TrimSpace(Head(fields))
             rest == ScanFieldsReportLast(Tail(fields),
                        IF IsValidField(field)
                        THEN includedFieldsMap \cup {field[1]}
                        ELSE includedFieldsMap)
         IN  IF IsValidField(field) \/ rest.err # NilError
             THEN rest
             ELSE [fs |-> NilFields, err |-> InvalidFieldError(field)]

\* the loop of NewFields over the split pieces: trim, look up, include; the
\* first unknown name ends it with nil and the error
RECURSIVE ScanFields(_, _)
ScanFields(fields, includedFieldsMap) ==
    IF fields = <<>> THEN [fs |-> FieldsOf(includedFieldsMap), err |-> NilError]
    ELSE LET field == TrimSpace(Head(fields))
         IN  IF ~IsValidField(field)
             THEN [fs |-> NilFields, err |-> InvalidFieldError(field)]
             ELSE ScanFields(Tail(fields), includedFieldsMap \cup {field[1]})

NewFields(fieldsConfig) ==
    IF fieldsConfig = <<>>
    THEN [fs |-> FieldsOf(validFieldMap), err |-> NilError]
    ELSE ScanFields(Split(fieldsConfig), {})

\* an IncludeField that only looks at the lower end of the range
IncludeFieldNoUpperCheck(fs, index) ==
    IF index < 0 THEN FALSE
    ELSE index < Len(fieldNames) => fieldNames[index + 1] \in fs.includedFieldsMap

\* IncludedFields.IncludeField, for a non-nil receiver; index counts from 0
IncludeField(fs, index) ==
    IF index < 0 \/ index >= Len(fieldNames) THEN FALSE
    ELSE fieldNames[index + 1] \in fs.includedFieldsMap

\* IncludedFields.GetFieldNameByIndex for an index in range
GetFieldNameByIndex(index) == fieldNames[index + 1]

\* the indexes IncludeField is asked about
Indexes == (0 - 1)..Len(fieldNames)

\* the record of the repository's tests
sampleRecord ==
    << "https", "2024-03-21T16:10:26.071854Z", "app/example-prod-lb/xxxxxxx4",
       "192.0.2.104:36217", "10.0.0.24:3003", "0.004", "0.024", "0.003",
       "203", "203", "1694", "10783",
       "PUT https://example.com:443/api/modify HTTP/1.1", "axios/1.6.5",
       "ECDHE-RSA-AES256-GCM-SHA384", "TLSv1.3", "arn:targetgroup",
       "Root=1-xxxxxx4", "example.com", "arn:certificate", "203",
       "2024-03-21T16:10:26.061854Z", "cache", "-", "-", "10.0.0.24:3003",
       "203", "-", "-", "TID_a1b2c3d4e5f67890abcdef1234567890" >>

\* time tokens: two that are RFC3339 and two that are not
TimeTokens ==
    {"2024-03-21T16:10:26.071854Z", "2024-03-21T16:10:27Z",
     "2024-03-21 16:10:26", ""}

\* time.Parse(time.RFC3339, token): the instant, on the scale of Times, or
\* BadTime when the token is rejected
ParseTime(token) ==
    IF token = "2024-03-21T16:10:26.071854Z" THEN 1
    ELSE IF token = "2024-03-21T16:10:27Z" THEN 2
    ELSE BadTime

\* The records given to recordToLogEntry: the sample with each time token,
\* cut short to each length or with a token too many.
RecordLens == {0, 1, Len(fieldNames) - 1, Len(fieldNames), Len(fieldNames) + 1}

WithTime(rec, token) ==
    [i \in 1..Len(rec) |-> IF i = 2 THEN token ELSE rec[i]]

Records ==
    { WithTime(SubSeq(sampleRecord \o <<"extra">>, 1, n), token) :
        n \in RecordLens, token \in TimeTokens }

\* the zero LogEntry returned with an error
NoLogEntry == [Data |-> <<>>, Timestamp |-> 0]

\* entryMap[key] = value
MapPut(m, key, value) ==
    [k \in (DOMAIN m) \cup {key} |-> IF k = key THEN value ELSE m[k]]

\* a projection that takes the value from the wrong column
RECURSIVE ProjectShifted(_, _, _, _)
ProjectShifted(rec, fs, i, entryMap) ==
    IF i >= Len(rec) THEN entryMap
    ELSE ProjectShifted(rec, fs, i + 1,
            IF IncludeField(fs, i)
            THEN MapPut(entryMap, GetFieldNameByIndex(i), rec[Len(rec) - i])
            ELSE entryMap)

\* the loop of recordToLogEntry over the record, from index i on (from 0)
RECURSIVE Project(_, _, _, _)
Project(rec, fs, i, entryMap) ==
    IF i >= Len(rec) THEN entryMap
    ELSE Project(rec, fs, i + 1,
            IF IncludeField(fs, i)
            THEN MapPut(entryMap, GetFieldNameByIndex(i), rec[i + 1])
            ELSE entryMap)

FormatError(expected, got) ==
    [msg |-> "invalid log format", expected |-> expected, got |-> got]
TimestampError == [msg |-> "error parsing timestamp", expected |-> 0, got |-> 0]
NoRecordError == [msg |-> "nil", expected |-> 0, got |-> 0]

\* a recordToLogEntry that accepts a record with tokens to spare
recordToLogEntryAtLeast(rec, fs) ==
    IF Len(rec) < Len(fieldNames)
    THEN [err |-> FormatError(Len(fieldNames), Len(rec)), entry |-> NoLogEntry]
    ELSE IF ParseTime(rec[2]) = BadTime
    THEN [err |-> TimestampError, entry |-> NoLogEntry]
    ELSE [err |-> NoRecordError,
          entry |-> [Data |-> Project(SubSeq(rec, 1, Len(fieldNames)), fs, 0, <<>>),
                     Timestamp |-> ParseTime(rec[2])]]

\* recordToLogEntry with the tokens and the field store spelled out
recordToLogEntryProjected(rec, fs) ==
    IF Len(rec) # Len(fieldNames)
    THEN [err |-> FormatError(Len(fieldNames), Len(rec)), entry |-> NoLogEntry]
    ELSE IF ParseTime(rec[2]) = BadTime
    THEN [err |-> TimestampError, entry |-> NoLogEntry]
    ELSE [err |-> NoRecordError,
          entry |-> [Data |-> Project(rec, fs, 0, <<>>),
                     Timestamp |-> ParseTime(rec[2])]]

\* the start-up variables while another specification runs
CfIdle ==
    /\ envGroup = TRUE
    /\ envStream = TRUE
    /\ envFields = <<>>
    /\ nhPc = "idle"
    /\ nhErr = "none"
    /\ nfResult = [called |-> FALSE, fs |-> NilFields, err |-> NilError]
    /\ fieldStore = NilFields
    /\ included = <<>>
    /\ fetches = 0
    /\ givenRecord = <<>>
    /\ entryCalls = <<>>

\* the goroutines that may use the counter
Tasks == 1..MaxTasks

NoOp == [kind |-> "none", value |-> 0]

\* the counter, the bootstrap and HandleS3URL while another specification runs
ScIdle ==
    /\ mu = 0
    /\ v = 0
    /\ scStart = 0
    /\ scPc = [t \in Tasks |-> "idle"]
    /\ scOp = [t \in Tasks |-> NoOp]
    /\ scTmp = [t \in Tasks |-> 0]
    /\ scRet = [t \in Tasks |-> 0 - 1]

EgIdle ==
    /\ egPc = "idle"
    /\ egGroups = {}
    /\ egStreams = {}
    /\ egCalls = <<>>
    /\ egRets = <<>>

HuIdle ==
    /\ huPc = "idle"
    /\ huUrl = <<>>
    /\ huBucket = ""
    /\ huPrefix = ""
    /\ huToken = 0
    /\ huRequests = <<>>
    /\ huResponses = <<>>
    /\ huObjects = <<>>
    /\ huRet = "none"

\* ============================================================ ProcessLogs

PlInit ==
    /\ plPc = "GetObject"
    /\ plRet = "none"
    /\ objErr = "none"
    /\ prPc = "Read"
    /\ prEntry = NoEntry
    /\ prErr = "none"
    /\ gzPc = "notStarted"
    /\ gzLines = 0
    /\ pipeBuf = <<>>
    /\ pipeState = "open"
    /\ entryChan = <<>>
    /\ chanClosed = FALSE
    /\ accPc = "notStarted"
    /\ events = <<>>
    /\ currentBatchSize = 0
    /\ counter = 0
    /\ sent = <<>>
    /\ linesRead = <<>>
    /\ enqueued = <<>>

FsIdle ==
    /\ s3Objects = <<>>
    /\ fsPc = "idle"
    /\ fsNext = 1
    /\ fsRet = NoError("none")
    /\ task = [i \in 1..MaxObjects |-> "notStarted"]
    /\ plResult = [i \in 1..MaxObjects |-> "none"]
    /\ permits = 0
    /\ wgCount = 0
    /\ wtPc = "notStarted"
    /\ errsClosed = FALSE
    /\ received = <<>>

Init == PlInit /\ FsIdle /\ CfIdle /\ ScIdle /\ EgIdle /\ HuIdle

\* GetObject fails: ProcessLogs returns the error, nothing is started.
GetObjectFails ==
    /\ plPc = "GetObject"
    /\ objErr' = "err"
    /\ plPc' = "returned"
    /\ plRet' = "err"
    /\ UNCHANGED <<prPc, prEntry, prErr, gzPc, gzLines, pipeBuf, pipeState,
                   entryChan, chanClosed, accPc, events, currentBatchSize,
                   counter, sent, linesRead, enqueued>>
    /\ UNCHANGED <<fsVars, cfVars, scVars, egVars, huVars>>

\* GetObject succeeds: the pipe, both goroutines and the channel are set up
\* and processRecords is entered.
GetObjectOk ==
    /\ plPc = "GetObject"
    /\ objErr' = "nil"
    /\ plPc' = "processRecords"
    /\ gzPc' = "NewReader"
    /\ accPc' = "range"
    /\ UNCHANGED <<plRet, prPc, prEntry, prErr, gzLines, pipeBuf, pipeState,
                   entryChan, chanClosed, events, currentBatchSize, counter,
                   sent, linesRead, enqueued>>
    /\ UNCHANGED <<fsVars, cfVars, scVars, egVars, huVars>>

\* ------------------------------------------------ decompression goroutine

\* The errors of gzip.NewReader: io.EOF when the body has no byte at all (the
\* header read of compress/gzip returns the io.EOF of io.ReadFull as it is),
\* io.ErrUnexpectedEOF when it ends inside the header, gzip.ErrHeader when
\* the header is not one.
NewReaderErrors == {"EOF", "ErrUnexpectedEOF", "ErrHeader"}

\* The errors of io.Copy: those of the gzip reader (never io.EOF, which ends
\* the copy with nil).
CopyErrors == {"ErrUnexpectedEOF", "ErrChecksum"}

\* writer.CloseWithError(err): the reader's Read returns err from then on, and
\* err may be io.EOF
CloseWithError(err) == IF err = "EOF" THEN "closed" ELSE "closedErr"

\* gzip.NewReader fails: writer.CloseWithError(err)
GzNewReaderFails ==
    /\ gzPc = "NewReader"
    /\ gzPc' = "failed"
    /\ \E err \in NewReaderErrors : pipeState' = CloseWithError(err)
    /\ UNCHANGED <<plPc, plRet, objErr, prPc, prEntry, prErr, gzLines, pipeBuf,
                   entryChan, chanClosed, accPc, events, currentBatchSize,
                   counter, sent, linesRead, enqueued>>
    /\ UNCHANGED <<fsVars, cfVars, scVars, egVars, huVars>>

GzNewReaderOk ==
    /\ gzPc = "NewReader"
    /\ gzPc' = "Copy"
    /\ UNCHANGED <<plPc, plRet, objErr, prPc, prEntry, prErr, gzLines, pipeBuf, pipeState,
                   entryChan, chanClosed, accPc, events, currentBatchSize,
                   counter, sent, linesRead, enqueued>>
    /\ UNCHANGED <<fsVars, cfVars, scVars, egVars, huVars>>

\* io.Copy reads the next decompressed line and starts writing it to the pipe.
GzCopyWrite ==
    /\ gzPc = "Copy"
    /\ gzLines < MaxLines
    /\ \E line \in Lines :
        pipeBuf' = <<line>>
    /\ gzLines' = gzLines + 1
    /\ gzPc' = "Write"
    /\ UNCHANGED <<plPc, plRet, objErr, prPc, prEntry, prErr, pipeState,
                   entryChan, chanClosed, accPc, events, currentBatchSize,
                   counter, sent, linesRead, enqueued>>
    /\ UNCHANGED <<fsVars, cfVars, scVars, egVars, huVars>>

\* The pipe write returns once the reader has taken the bytes.
GzWriteReturns ==
    /\ gzPc = "Write"
    /\ pipeBuf = <<>>
    /\ gzPc' = "Copy"
    /\ UNCHANGED <<plPc, plRet, objErr, prPc, prEntry, prErr, gzLines, pipeBuf, pipeState,
                   entryChan, chanClosed, accPc, events, currentBatchSize,
                   counter, sent, linesRead, enqueued>>
    /\ UNCHANGED <<fsVars, cfVars, scVars, egVars, huVars>>

\* io.Copy reaches the end of the gzip stream: writer.Close()
GzCopyEOF ==
    /\ gzPc = "Copy"
    /\ gzPc' = "done"
    /\ pipeState' = "closed"
    /\ UNCHANGED <<plPc, plRet, objErr, prPc, prEntry, prErr, gzLines, pipeBuf,
                   entryChan, chanClosed, accPc, events, currentBatchSize,
                   counter, sent, linesRead, enqueued>>
    /\ UNCHANGED <<fsVars, cfVars, scVars, egVars, huVars>>

\* io.Copy fails (corrupt stream): writer.CloseWithError(err)
GzCopyFails ==
    /\ gzPc = "Copy"
    /\ gzPc' = "failed"
    /\ \E err \in CopyErrors : pipeState' = CloseWithError(err)
    /\ UNCHANGED <<plPc, plRet, objErr, prPc, prEntry, prErr, gzLines, pipeBuf,
                   entryChan, chanClosed, accPc, events, currentBatchSize,
                   counter, sent, linesRead, enqueued>>
    /\ UNCHANGED <<fsVars, cfVars, scVars, egVars, huVars>>

\* ------------------------------------------------------- processRecords

\* a parser that skips a bad line and reads on
AfterRecordSkip(r) == "processRecords"

\* the position processRecords moves to after recordToLogEntry
AfterRecord(r) == IF r.err = "nil" THEN "processRecords" ELSE "close"

\* csvReader.Read returns a record; recordToLogEntry either yields the entry
\* to send or the error processRecords returns with.
PrReadRecord ==
    /\ plPc = "processRecords"
    /\ prPc = "Read"
    /\ pipeBuf # <<>>
    /\ LET record == Head(pipeBuf)
           r == recordToLogEntry(record)
       IN  /\ linesRead' = Append(linesRead, record)
           /\ pipeBuf' = <<>>
           /\ plPc' = AfterRecord(r)
           /\ IF r.err = "nil"
              THEN /\ prPc' = "Send"
                   /\ prEntry' = r.entry
                   /\ prErr' = prErr
              ELSE /\ prErr' = r.err
                   /\ UNCHANGED <<prPc, prEntry>>
    /\ UNCHANGED <<plRet, objErr, gzPc, gzLines, pipeState, entryChan, chanClosed,
                   accPc, events, currentBatchSize, counter, sent, enqueued>>
    /\ UNCHANGED <<fsVars, cfVars, scVars, egVars, huVars>>

\* csvReader.Read returns io.EOF: processRecords returns nil.
PrReadEOF ==
    /\ plPc = "processRecords"
    /\ prPc = "Read"
    /\ pipeBuf = <<>>
    /\ pipeState = "closed"
    /\ prErr' = "nil"
    /\ plPc' = "close"
    /\ UNCHANGED <<plRet, objErr, prPc, prEntry, gzPc, gzLines, pipeBuf, pipeState,
                   entryChan, chanClosed, accPc, events, currentBatchSize,
                   counter, sent, linesRead, enqueued>>
    /\ UNCHANGED <<fsVars, cfVars, scVars, egVars, huVars>>

\* csvReader.Read returns the writer's error: processRecords returns it.
PrReadError ==
    /\ plPc = "processRecords"
    /\ prPc = "Read"
    /\ pipeBuf = <<>>
    /\ pipeState = "closedErr"
    /\ prErr' = "read"
    /\ plPc' = "close"
    /\ UNCHANGED <<plRet, objErr, prPc, prEntry, gzPc, gzLines, pipeBuf, pipeState,
                   entryChan, chanClosed, accPc, events, currentBatchSize,
                   counter, sent, linesRead, enqueued>>
    /\ UNCHANGED <<fsVars, cfVars, scVars, egVars, huVars>>

\* a channel that takes an entry however many it holds
ChanHasRoomAlways(ch) == TRUE

\* a channel that never takes an entry
ChanHasRoomNever(ch) == FALSE

\* a send on entryChan can proceed: the buffer holds fewer than its capacity
ChanHasRoom(ch) == Len(ch) < entryChanCap

\* entryChan <- entry: blocks while the channel is full.
PrSend ==
    /\ plPc = "processRecords"
    /\ prPc = "Send"
    /\ ChanHasRoom(entryChan)
    /\ entryChan' = Append(entryChan, prEntry)
    /\ enqueued' = Append(enqueued, prEntry)
    /\ prPc' = "Read"
    /\ prEntry' = NoEntry
    /\ UNCHANGED <<plPc, plRet, objErr, prErr, gzPc, gzLines, pipeBuf, pipeState,
                   chanClosed, accPc, events, currentBatchSize, counter, sent,
                   linesRead>>
    /\ UNCHANGED <<fsVars, cfVars, scVars, egVars, huVars>>

\* close(entryChan)
PlClose ==
    /\ plPc = "close"
    /\ chanClosed' = TRUE
    /\ plPc' = "wgWait"
    /\ UNCHANGED <<plRet, objErr, prPc, prEntry, prErr, gzPc, gzLines, pipeBuf, pipeState,
                   entryChan, accPc, events, currentBatchSize, counter, sent,
                   linesRead, enqueued>>
    /\ UNCHANGED <<fsVars, cfVars, scVars, egVars, huVars>>

\* a ProcessLogs that hands on the error of processRecords
PlReturnValuePropagate(err) == IF err = "nil" THEN "nil" ELSE "err"

\* what ProcessLogs returns after wg.Wait()
PlReturnValue(err) == "nil"

\* a wait that does not wait
WgWaitReturnsAtOnce(acc) == TRUE

\* wg.Wait() can return: the accumulator goroutine has run wg.Done()
WgWaitReturns(acc) == acc = "done"

\* wg.Wait() returns; ProcessLogs returns nil.
PlReturn ==
    /\ plPc = "wgWait"
    /\ WgWaitReturns(accPc)
    /\ plPc' = "returned"
    /\ plRet' = PlReturnValue(prErr)
    /\ UNCHANGED <<objErr, prPc, prEntry, prErr, gzPc, gzLines, pipeBuf, pipeState,
                   entryChan, chanClosed, accPc, events, currentBatchSize,
                   counter, sent, linesRead, enqueued>>
    /\ UNCHANGED <<fsVars, cfVars, scVars, egVars, huVars>>

\* -------------------------------------------------- accumulator goroutine

\* an accumulator that keeps a rejected batch to send it again
AfterFlushRetry(batch, event, ok) ==
    IF ok THEN <<event>> ELSE Append(batch, event)

\* the pending batch after a flush: events = nil, then the append; the
\* result of PutLogEvents is only printed
AfterFlush(batch, event, ok) == <<event>>

\* the InputLogEvent built from an entry
EventOf(entry) == entry

\* a last flush that is not guarded
HasPendingAlways(evs) == TRUE

\* if len(events) > 0, after the range loop
HasPending(evs) == Len(evs) > 0

\* One iteration of the range loop in which the pending batch is sent first:
\* SendEventsToCloudWatch sorts it and calls PutLogEvents, the counter is
\* incremented, and the event starts the next batch.
AccReceiveFlush ==
    /\ accPc = "range"
    /\ entryChan # <<>>
    /\ LET event == EventOf(Head(entryChan))
           eventSize == EstimateEventSize(event)
       IN  /\ NeedsFlush(events, currentBatchSize, eventSize)
           /\ \E sorted \in SortSlice(events) : \E ok \in BOOLEAN :
                /\ sent' = Append(sent, [LogEvents |-> sorted, ok |-> ok])
                /\ events' = AfterFlush(sorted, event, ok)
           /\ counter' = counter + Len(events)
           /\ currentBatchSize' = eventSize
    /\ entryChan' = Tail(entryChan)
    /\ UNCHANGED <<plPc, plRet, objErr, prPc, prEntry, prErr, gzPc, gzLines, pipeBuf,
                   pipeState, chanClosed, accPc, linesRead, enqueued>>
    /\ UNCHANGED <<fsVars, cfVars, scVars, egVars, huVars>>

\* One iteration of the range loop in which the event is only appended.
AccReceiveAppend ==
    /\ accPc = "range"
    /\ entryChan # <<>>
    /\ LET event == EventOf(Head(entryChan))
           eventSize == EstimateEventSize(event)
       IN  /\ ~NeedsFlush(events, currentBatchSize, eventSize)
           /\ events' = Append(events, event)
           /\ currentBatchSize' = currentBatchSize + eventSize
    /\ entryChan' = Tail(entryChan)
    /\ UNCHANGED <<plPc, plRet, objErr, prPc, prEntry, prErr, gzPc, gzLines, pipeBuf,
                   pipeState, chanClosed, accPc, counter, sent, linesRead,
                   enqueued>>
    /\ UNCHANGED <<fsVars, cfVars, scVars, egVars, huVars>>

\* The channel is closed and drained with events pending: they are sent.
AccFinalFlush ==
    /\ accPc = "range"
    /\ entryChan = <<>>
    /\ chanClosed
    /\ HasPending(events)
    /\ \E sorted \in SortSlice(events) : \E ok \in BOOLEAN :
        /\ sent' = Append(sent, [LogEvents |-> sorted, ok |-> ok])
        /\ events' = sorted
    /\ counter' = counter + Len(events)
    /\ accPc' = "done"
    /\ UNCHANGED <<plPc, plRet, objErr, prPc, prEntry, prErr, gzPc, gzLines, pipeBuf,
                   pipeState, entryChan, chanClosed, currentBatchSize,
                   linesRead, enqueued>>
    /\ UNCHANGED <<fsVars, cfVars, scVars, egVars, huVars>>

\* The channel is closed and drained with nothing pending.
AccFinishEmpty ==
    /\ accPc = "range"
    /\ entryChan = <<>>
    /\ chanClosed
    /\ ~HasPending(events)
    /\ accPc' = "done"
    /\ UNCHANGED <<plPc, plRet, objErr, prPc, prEntry, prErr, gzPc, gzLines, pipeBuf,
                   pipeState, entryChan, chanClosed, events, currentBatchSize,
                   counter, sent, linesRead, enqueued>>
    /\ UNCHANGED <<fsVars, cfVars, scVars, egVars, huVars>>

Next ==
    \/ GetObjectFails
    \/ GetObjectOk
    \/ GzNewReaderFails
    \/ GzNewReaderOk
    \/ GzCopyWrite
    \/ GzWriteReturns
    \/ GzCopyEOF
    \/ GzCopyFails
    \/ PrReadRecord
    \/ PrReadEOF
    \/ PrReadError
    \/ PrSend
    \/ PlClose
    \/ PlReturn
    \/ AccReceiveFlush
    \/ AccReceiveAppend
    \/ AccFinalFlush
    \/ AccFinishEmpty

Spec == Init /\ [][Next]_vars

\* the steps of each goroutine of ProcessLogs
GzStep ==
    \/ GzNewReaderFails
    \/ GzNewReaderOk
    \/ GzCopyWrite
    \/ GzWriteReturns
    \/ GzCopyEOF
    \/ GzCopyFails

MainStep ==
    \/ GetObjectFails
    \/ GetObjectOk
    \/ PrReadRecord
    \/ PrReadEOF
    \/ PrReadError
    \/ PrSend
    \/ PlClose
    \/ PlReturn

AccStep ==
    \/ AccReceiveFlush
    \/ AccReceiveAppend
    \/ AccFinalFlush
    \/ AccFinishEmpty

\* The Go scheduler runs every goroutine that is not blocked, and the calls
\* to S3 and CloudWatch return.
FairSpec ==
    /\ Spec
    /\ WF_vars(GzStep)
    /\ WF_vars(MainStep)
    /\ WF_vars(AccStep)

\* ==================================================== claims: ProcessLogs

\* the events of all PutLogEvents calls so far, one after the other
RECURSIVE Submitted(_)
Submitted(calls) ==
    IF calls = <<>> THEN <<>>
    ELSE Head(calls).LogEvents \o Submitted(Tail(calls))

Occurrences(seq, e) == Cardinality({ i \in 1..Len(seq) : seq[i] = e })

SameEvents(a, b) ==
    /\ Len(a) = Len(b)
    /\ \A i \in 1..Len(a) : Occurrences(a, a[i]) = Occurrences(b, a[i])

Malformed(record) == record.tokens # numFieldNames \/ record.time = BadTime

\* C1: every batch passed to PutLogEvents holds at most maxBatchCount events.
C1_BatchCount ==
    \A k \in 1..Len(sent) : Len(sent[k].LogEvents) <= maxBatchCount

\* A full batch of small events was flushed because of the count alone.
C1_Witness ==
    /\ Len(sent) >= 1
    /\ Len(sent[1].LogEvents) = maxBatchCount
    /\ \A i \in 1..maxBatchCount : sent[1].LogEvents[i].MessageLen = 2
    /\ Len(enqueued) > maxBatchCount

\* C2 as stated: every batch passed to PutLogEvents has a total estimated
\* size of at most maxBatchSize.
C2_Original ==
    \A k \in 1..Len(sent) : SumSizes(sent[k].LogEvents) <= maxBatchSize

\* C2 amended: every batch passed to PutLogEvents has a total estimated size
\* of at most maxBatchSize, unless it holds a single event whose own
\* estimate exceeds maxBatchSize.
C2_BatchSize ==
    \A k \in 1..Len(sent) :
        \/ SumSizes(sent[k].LogEvents) <= maxBatchSize
        \/ /\ Len(sent[k].LogEvents) = 1
           /\ sent[k].LogEvents[1].MessageLen + eventOverhead > maxBatchSize

\* A batch was cut short by the size limit (the two events after it would
\* not have fitted with it) and an oversized event went out alone.
C2_Witness ==
    /\ Len(sent) >= 2
    /\ Len(sent[1].LogEvents) = 1
    /\ sent[1].LogEvents[1].MessageLen = 600000
    /\ enqueued[2].MessageLen = 600000
    /\ \E k \in 1..Len(sent) : SumSizes(sent[k].LogEvents) > maxBatchSize

\* C3: in every batch passed to PutLogEvents the timestamps are
\* non-decreasing, whatever order the entries arrived in.
C3_BatchOrdered ==
    \A k \in 1..Len(sent) :
        \A i \in 1..(Len(sent[k].LogEvents) - 1) :
            sent[k].LogEvents[i].Timestamp <= sent[k].LogEvents[i + 1].Timestamp

\* The first two entries arrived newest first and went out in one batch.
C3_Witness ==
    /\ Len(sent) >= 1
    /\ Len(sent[1].LogEvents) >= 2
    /\ Len(enqueued) >= 2
    /\ enqueued[1].Timestamp > enqueued[2].Timestamp

\* C9: ProcessLogs returns an error exactly when GetObject failed, and then
\* neither goroutine was started and nothing was sent; no error of
\* decompression, of a record or of the sink makes it return an error.
C9_ErrorIffFetchFailed ==
    /\ plPc = "returned" => (plRet = "err" <=> objErr = "err")
    /\ objErr = "err" =>
         /\ gzPc = "notStarted"
         /\ accPc = "notStarted"
         /\ sent = <<>>
         /\ enqueued = <<>>
    /\ (plPc = "returned" /\ (prErr \in {"read", "format", "timestamp"}
                               \/ \E k \in 1..Len(sent) : ~sent[k].ok))
         => plRet = "nil"

\* ProcessLogs returned nil although processRecords failed and the sink
\* rejected a batch.
C9_Witness ==
    /\ plPc = "returned"
    /\ plRet = "nil"
    /\ prErr \in {"read", "format", "timestamp"}
    /\ \E k \in 1..Len(sent) : ~sent[k].ok

\* C10: processRecords stops at a malformed line: that line is the last one
\* read, the queue has received exactly the entries of the lines before it,
\* and when ProcessLogs has returned each of them has been passed to
\* PutLogEvents in a batch.
C10_StopAtMalformedLine ==
    \A i \in 1..Len(linesRead) :
        Malformed(linesRead[i]) =>
            /\ i = Len(linesRead)
            /\ Len(enqueued) = i - 1
            /\ \A j \in 1..(i - 1) :
                /\ enqueued[j].Timestamp = linesRead[j].time
                /\ enqueued[j].MessageLen = linesRead[j].len
            /\ plPc = "returned" => SameEvents(enqueued, Submitted(sent))

\* ProcessLogs returned after a malformed second or later line, with a later
\* line still unread in the pipe.
C10_Witness ==
    /\ plPc = "returned"
    /\ Len(linesRead) >= 2
    /\ Malformed(linesRead[Len(linesRead)])
    /\ pipeBuf # <<>>
    /\ Len(Submitted(sent)) = Len(linesRead) - 1

\* the queue's entries as the events they become
AsEvents(entries) == [i \in 1..Len(entries) |-> EventOf(entries[i])]

\* the number of events in the batches PutLogEvents accepted
RECURSIVE AcceptedCount(_)
AcceptedCount(calls) ==
    IF calls = <<>> THEN 0
    ELSE (IF Head(calls).ok THEN Len(Head(calls).LogEvents) ELSE 0)
            + AcceptedCount(Tail(calls))

\* C11: once PutLogEvents has rejected a batch, its events are not pending
\* any more and are never submitted again: every enqueued entry is in exactly
\* one place (a submitted batch, the pending batch or the queue), the
\* accumulator goes on to submit the entries that follow, and ProcessLogs
\* returns nil.
C11_RejectedBatchDropped ==
    (\E k \in 1..Len(sent) : ~sent[k].ok) =>
        /\ accPc = "range" =>
             SameEvents(AsEvents(enqueued),
                        Submitted(sent) \o events \o AsEvents(entryChan))
        /\ accPc = "done" => SameEvents(AsEvents(enqueued), Submitted(sent))
        /\ plPc = "returned" => plRet = "nil"

\* The first batch was rejected, a later one was submitted all the same, and
\* ProcessLogs returned.
C11_Witness ==
    /\ plPc = "returned"
    /\ Len(sent) >= 2
    /\ ~sent[1].ok
    /\ sent[2].ok

\* C12: the counter holds the number of events in the batches the sink
\* accepted; the events of a rejected batch are not counted.
C12_CounterCountsAccepted == counter = AcceptedCount(sent)

\* the first n elements of a sequence, and the rest
Take(seq, n) == SubSeq(seq, 1, IF n < Len(seq) THEN n ELSE Len(seq))
Drop(seq, n) == SubSeq(seq, n + 1, Len(seq))

\* a sequence cut into consecutive chunks of n elements, the last one shorter
RECURSIVE Chunks(_, _)
Chunks(seq, n) ==
    IF seq = <<>> THEN <<>> ELSE <<Take(seq, n)>> \o Chunks(Drop(seq, n), n)

AllSmall(entries) == \A i \in 1..Len(entries) : entries[i].MessageLen = 2

Oversized(event) == event.MessageLen + eventOverhead > maxBatchSize

\* C19: when all n entries of the object are small and alike in size, the
\* accumulator has made ceil(n / maxBatchCount) PutLogEvents calls by the time
\* it ends: call k carries the k-th maxBatchCount entries in arrival order,
\* the last call the remainder, and there is no extra call.
C19_UniformBatches ==
    (accPc = "done" /\ AllSmall(enqueued)) =>
        LET chunks == Chunks(AsEvents(enqueued), maxBatchCount)
        IN  /\ Len(sent) = Len(chunks)
            /\ Len(sent) * maxBatchCount >= Len(enqueued)
            /\ (Len(sent) - 1) * maxBatchCount < Len(enqueued) \/ Len(enqueued) = 0
            /\ \A k \in 1..Len(sent) : SameEvents(sent[k].LogEvents, chunks[k])

\* Twice maxBatchCount small entries went out as two full batches and
\* nothing more.
C19_Witness ==
    /\ accPc = "done"
    /\ AllSmall(enqueued)
    /\ Len(enqueued) = 2 * maxBatchCount
    /\ Len(sent) = 2

\* C20: an event whose estimate alone exceeds maxBatchSize is never batched
\* with another one: it is alone in the pending batch, alone in the batch
\* submitted, and when the accumulator has ended every such event that was
\* enqueued has been submitted.
C20_OversizedAlone ==
    /\ (\E i \in 1..Len(events) : Oversized(events[i])) => Len(events) = 1
    /\ \A k \in 1..Len(sent) :
        (\E i \in 1..Len(sent[k].LogEvents) : Oversized(sent[k].LogEvents[i]))
            => Len(sent[k].LogEvents) = 1
    /\ accPc = "done" =>
        \A j \in 1..Len(enqueued) :
            Oversized(EventOf(enqueued[j])) =>
                \E k \in 1..Len(sent) : sent[k].LogEvents = <<EventOf(enqueued[j])>>

\* An oversized event arrived between two others and went out alone, after
\* the batch pending before it and before the batch of the event after it.
C20_Witness ==
    /\ accPc = "done"
    /\ Len(enqueued) = 3
    /\ Len(sent) = 3
    /\ ~Oversized(sent[1].LogEvents[1])
    /\ Oversized(sent[2].LogEvents[1])
    /\ ~Oversized(sent[3].LogEvents[1])

\* ------------------------------------- claims on the queue and the flushes

\* the number of events in the first k PutLogEvents calls
RECURSIVE SubmittedUpTo(_, _)
SubmittedUpTo(batches, k) ==
    IF k = 0 THEN 0 ELSE SubmittedUpTo(batches, k - 1) + Len(batches[k].LogEvents)

\* the entries the accumulator has taken from the queue
TakenCount == Len(enqueued) - Len(entryChan)

\* the stretch of the enqueued entries that went into the k-th call
Segment(k) ==
    SubSeq(enqueued, SubmittedUpTo(sent, k - 1) + 1, SubmittedUpTo(sent, k))

\* the stretch taken after the last flush on arrival
PendingSegment ==
    SubSeq(enqueued, SubmittedUpTo(sent, Len(sent)) + 1, TakenCount)

\* C21: the intake queue never holds more than its capacity (1.25 times
\* maxBatchCount, rounded down); when it is full the parser cannot send; and
\* the accumulator receives every enqueued entry exactly once, in the order
\* the parser produced them: the queue is the tail of the enqueued entries,
\* and what was taken before it is, in order, the batches submitted so far
\* followed by the pending batch.
C21_QueueBounded ==
    /\ Len(entryChan) <= entryChanCap
    /\ entryChanCap * 100 <= maxBatchCount * 125
    /\ Len(entryChan) >= entryChanCap => ~ENABLED PrSend
    /\ entryChan = SubSeq(enqueued, TakenCount + 1, Len(enqueued))
    /\ \A k \in 1..Len(sent) : SameEvents(sent[k].LogEvents, Segment(k))
    /\ accPc # "done" => events = PendingSegment
    /\ accPc = "done" => SubmittedUpTo(sent, Len(sent)) = Len(enqueued)

\* The queue is full and the parser holds the next entry.
C21_Witness ==
    /\ Len(entryChan) = entryChanCap
    /\ plPc = "processRecords"
    /\ prPc = "Send"
    /\ prEntry # NoEntry
    /\ Len(linesRead) = entryChanCap + 1

\* C22: when ProcessLogs returns after a successful fetch, the queue is
\* closed and empty, the accumulator has finished, the pending batch has been
\* flushed, and every enqueued entry is in exactly one submitted batch, also
\* when parsing stopped early on an error.
C22_ReturnsAfterDrain ==
    (plPc = "returned" /\ objErr = "nil") =>
        /\ chanClosed
        /\ entryChan = <<>>
        /\ accPc = "done"
        /\ SameEvents(enqueued, Submitted(sent))
        /\ \A k \in 1..Len(sent) : SameEvents(sent[k].LogEvents, Segment(k))
        /\ enqueued # <<>> =>
             /\ sent # <<>>
             /\ sent[Len(sent)].LogEvents = events

\* ProcessLogs returned after parsing stopped on a bad line, with the
\* entries before it submitted.
C22_Witness ==
    /\ plPc = "returned"
    /\ objErr = "nil"
    /\ prErr \in {"format", "timestamp"}
    /\ Len(enqueued) >= 2
    /\ Len(sent) >= 1
    /\ Len(Submitted(sent)) = Len(enqueued)

\* a stretch of entries, in arrival order, in which no entry was appended
\* where the flush test held
NeverOverfilled(seg) ==
    \A i \in 2..Len(seg) :
        /\ i - 1 < maxBatchCount
        /\ SumSizes(SubSeq(seg, 1, i)) <= maxBatchSize

\* the k-th call was a flush on arrival of an event, not the last flush
FlushedOnArrival(k) == k < Len(sent) \/ accPc # "done"

\* C27: the accumulator flushes the pending batch on arrival of an event e
\* if and only if the batch is non-empty and (pending size + size(e) >
\* maxBatchSize or the pending count has reached maxBatchCount), and e then
\* starts a fresh batch.  Hence no batch ever took an event past a limit, and
\* every batch emitted before queue closure is maximal: the event that
\* arrived next could not have been added within both limits.
C27_FlushIffNeeded ==
    /\ \A k \in 1..Len(sent) :
        /\ Len(Segment(k)) = Len(sent[k].LogEvents)
        /\ NeverOverfilled(Segment(k))
        /\ FlushedOnArrival(k) =>
             /\ SubmittedUpTo(sent, k) < TakenCount
             /\ \/ Len(sent[k].LogEvents) >= maxBatchCount
                \/ SumSizes(sent[k].LogEvents)
                     + EstimateEventSize(EventOf(enqueued[SubmittedUpTo(sent, k) + 1]))
                   > maxBatchSize
    /\ accPc # "done" =>
        /\ NeverOverfilled(PendingSegment)
        /\ sent # <<>> => PendingSegment # <<>>

\* A first batch cut by the size limit and a second one cut by the count.
C27_Witness ==
    /\ accPc = "range"
    /\ Len(sent) = 2
    /\ Len(sent[1].LogEvents) < maxBatchCount
    /\ Len(sent[2].LogEvents) = maxBatchCount
    /\ SumSizes(sent[2].LogEvents) < maxBatchSize
    /\ Len(events) = 1

\* C29: every PutLogEvents call carries at least one event, and an object
\* that yields no entry causes no call at all.
C29_NoEmptyBatch ==
    /\ \A k \in 1..Len(sent) : Len(sent[k].LogEvents) >= 1
    /\ enqueued = <<>> => sent = <<>>

\* ProcessLogs returned after a failure on the first line, without a call.
C29_Witness ==
    /\ plPc = "returned"
    /\ objErr = "nil"
    /\ accPc = "done"
    /\ enqueued = <<>>
    /\ sent = <<>>
    /\ Len(linesRead) = 1
    /\ prErr \in {"format", "timestamp"}

\* ------------------------------------------ claims on the decompression

\* the parser read to the end of the stream without an error
ParsedAsComplete == prErr = "nil"

\* C24: when the decompression goroutine hits an error (gzip.NewReader or
\* io.Copy fails), processRecords ends with an error, never with a normal end
\* of stream.
C24_DecompressionErrorSurfaced ==
    gzPc = "failed" => ~ParsedAsComplete

\* C25: the stages of one object pipeline never deadlock: whatever the
\* object holds and whatever the sink answers, ProcessLogs eventually
\* returns.
C25_ProcessLogsReturns == <>(plPc = "returned")

\* ProcessLogs returned after more entries than the queue holds, a
\* decompression error and a rejected batch.
C25_Witness ==
    /\ plPc = "returned"
    /\ Len(enqueued) > entryChanCap
    /\ gzPc = "failed"
    /\ prErr = "read"
    /\ \E k \in 1..Len(sent) : ~sent[k].ok

\* C28: in every run of ProcessLogs with a successful fetch the
\* decompression goroutine eventually terminates (and with it the deferred
\* gzipReader.Close() runs), also when the parser stops reading early.
C28_DecompressionTerminates ==
    (objErr = "nil") ~> (gzPc \in {"done", "failed"})

\* ======================================================= processS3Objects

\* The objects of one call: any number up to MaxObjects, with distinct keys.
ObjectLists ==
    { [i \in 1..n |-> [Bucket |-> "bucket", Key |-> i]] : n \in 0..MaxObjects }

\* a goroutine that names the loop variable instead of its own argument: by
\* the time an error is received the loop is over and that is the last object
WrapErrorLoopVariable(s3obj, cause) ==
    [msg |-> "error processing logs for",
     Bucket |-> s3Objects[Len(s3Objects)].Bucket,
     Key |-> s3Objects[Len(s3Objects)].Key, cause |-> cause]

\* fmt.Errorf("error processing logs for s3://%s/%s: %w", bucket, key, err)
WrapError(s3obj, cause) ==
    [msg |-> "error processing logs for", Bucket |-> s3obj.Bucket,
     Key |-> s3obj.Key, cause |-> cause]

\* the cause ProcessLogs of one object fails with
CauseOf(s3obj) == <<"failed to get object", s3obj.Key>>

FsInit ==
    /\ s3Objects \in ObjectLists
    /\ fsPc = "loop"
    /\ fsNext = 1
    /\ fsRet = NoError("none")
    /\ task = [i \in 1..MaxObjects |-> "notStarted"]
    /\ plResult = [i \in 1..MaxObjects |-> "none"]
    /\ permits = 0
    /\ wgCount = 0
    /\ wtPc = "notStarted"
    /\ errsClosed = FALSE
    /\ received = <<>>

PlIdle ==
    /\ plPc = "idle"
    /\ plRet = "none"
    /\ objErr = "none"
    /\ prPc = "Read"
    /\ prEntry = NoEntry
    /\ prErr = "none"
    /\ gzPc = "notStarted"
    /\ gzLines = 0
    /\ pipeBuf = <<>>
    /\ pipeState = "open"
    /\ entryChan = <<>>
    /\ chanClosed = FALSE
    /\ accPc = "notStarted"
    /\ events = <<>>
    /\ currentBatchSize = 0
    /\ counter = 0
    /\ sent = <<>>
    /\ linesRead = <<>>
    /\ enqueued = <<>>

InitFan == FsInit /\ PlIdle /\ CfIdle /\ ScIdle /\ EgIdle /\ HuIdle

\* a launcher that never waits for a permit
CanAcquireAlways(held) == TRUE

\* concurrent <- 1 can proceed: the buffered channel has room
CanAcquire(held) == held < concurrency

\* One iteration of the launch loop: wg.Add(1), concurrent <- 1 (blocks while
\* all permits are held), go func(s3obj).
Launch ==
    /\ fsPc = "loop"
    /\ fsNext <= Len(s3Objects)
    /\ CanAcquire(permits)
    /\ wgCount' = wgCount + 1
    /\ permits' = permits + 1
    /\ task' = [task EXCEPT ![fsNext] = "ProcessLogs"]
    /\ fsNext' = fsNext + 1
    /\ UNCHANGED <<s3Objects, fsPc, fsRet, plResult, wtPc, errsClosed, received>>
    /\ UNCHANGED <<plVars, cfVars, scVars, egVars, huVars>>

\* The loop is over: the wg.Wait/close(errs) goroutine is started and the
\* range over errs begins.
LoopDone ==
    /\ fsPc = "loop"
    /\ fsNext > Len(s3Objects)
    /\ fsPc' = "range"
    /\ wtPc' = "wait"
    /\ UNCHANGED <<s3Objects, fsNext, fsRet, task, plResult, permits, wgCount,
                   errsClosed, received>>
    /\ UNCHANGED <<plVars, cfVars, scVars, egVars, huVars>>

\* h.lp.ProcessLogs(s3obj) returns nil: the goroutine goes to its deferred calls.
TaskProcessLogsNil(i) ==
    /\ task[i] = "ProcessLogs"
    /\ plResult' = [plResult EXCEPT ![i] = "nil"]
    /\ task' = [task EXCEPT ![i] = "deferred"]
    /\ UNCHANGED <<s3Objects, fsPc, fsNext, fsRet, permits, wgCount, wtPc,
                   errsClosed, received>>
    /\ UNCHANGED <<plVars, cfVars, scVars, egVars, huVars>>

\* h.lp.ProcessLogs(s3obj) returns an error: the goroutine goes to errs <- ...
TaskProcessLogsErr(i) ==
    /\ task[i] = "ProcessLogs"
    /\ plResult' = [plResult EXCEPT ![i] = "err"]
    /\ task' = [task EXCEPT ![i] = "sendErr"]
    /\ UNCHANGED <<s3Objects, fsPc, fsNext, fsRet, permits, wgCount, wtPc,
                   errsClosed, received>>
    /\ UNCHANGED <<plVars, cfVars, scVars, egVars, huVars>>

\* what the range over errs does with a received error
OnReceive(err) == err

\* errs is unbuffered: the send completes only against the receive of the
\* range loop, which returns the (non-nil) error at once.
TaskSendErr(i) ==
    /\ task[i] = "sendErr"
    /\ fsPc = "range"
    /\ LET err == WrapError(s3Objects[i], CauseOf(s3Objects[i]))
       IN  /\ received' = Append(received, i)
           /\ fsRet' = OnReceive(err)
    /\ fsPc' = "returned"
    /\ task' = [task EXCEPT ![i] = "deferred"]
    /\ UNCHANGED <<s3Objects, fsNext, plResult, permits, wgCount, wtPc, errsClosed>>
    /\ UNCHANGED <<plVars, cfVars, scVars, egVars, huVars>>

\* deferred: wg.Done()
TaskWgDone(i) ==
    /\ task[i] = "deferred"
    /\ wgCount' = wgCount - 1
    /\ task' = [task EXCEPT ![i] = "release"]
    /\ UNCHANGED <<s3Objects, fsPc, fsNext, fsRet, plResult, permits, wtPc,
                   errsClosed, received>>
    /\ UNCHANGED <<plVars, cfVars, scVars, egVars, huVars>>

\* deferred: <-concurrent; the goroutine ends
TaskRelease(i) ==
    /\ task[i] = "release"
    /\ permits' = permits - 1
    /\ task' = [task EXCEPT ![i] = "done"]
    /\ UNCHANGED <<s3Objects, fsPc, fsNext, fsRet, plResult, wgCount, wtPc,
                   errsClosed, received>>
    /\ UNCHANGED <<plVars, cfVars, scVars, egVars, huVars>>

\* wg.Wait() returns; close(errs)
WaiterClose ==
    /\ wtPc = "wait"
    /\ wgCount = 0
    /\ errsClosed' = TRUE
    /\ wtPc' = "done"
    /\ UNCHANGED <<s3Objects, fsPc, fsNext, fsRet, task, plResult, permits,
                   wgCount, received>>
    /\ UNCHANGED <<plVars, cfVars, scVars, egVars, huVars>>

\* The range over errs ends on the closed channel: return nil.
RangeClosed ==
    /\ fsPc = "range"
    /\ errsClosed
    /\ fsPc' = "returned"
    /\ fsRet' = NoError("nil")
    /\ UNCHANGED <<s3Objects, fsNext, task, plResult, permits, wgCount, wtPc,
                   errsClosed, received>>
    /\ UNCHANGED <<plVars, cfVars, scVars, egVars, huVars>>

TaskStep(i) ==
    \/ TaskProcessLogsNil(i)
    \/ TaskProcessLogsErr(i)
    \/ TaskSendErr(i)
    \/ TaskWgDone(i)
    \/ TaskRelease(i)

NextFan ==
    \/ Launch
    \/ LoopDone
    \/ \E i \in 1..MaxObjects : i <= Len(s3Objects) /\ TaskProcessLogsNil(i)
    \/ \E i \in 1..MaxObjects : i <= Len(s3Objects) /\ TaskProcessLogsErr(i)
    \/ \E i \in 1..MaxObjects : i <= Len(s3Objects) /\ TaskSendErr(i)
    \/ \E i \in 1..MaxObjects : i <= Len(s3Objects) /\ TaskWgDone(i)
    \/ \E i \in 1..MaxObjects : i <= Len(s3Objects) /\ TaskRelease(i)
    \/ WaiterClose
    \/ RangeClosed

SpecFan == InitFan /\ [][NextFan]_vars

\* The Go scheduler runs every goroutine that can take a step; a ProcessLogs
\* call is taken to return.
FairSpecFan ==
    /\ InitFan
    /\ [][NextFan]_vars
    /\ WF_vars(Launch)
    /\ WF_vars(LoopDone)
    /\ WF_vars(WaiterClose)
    /\ WF_vars(RangeClosed)
    /\ \A i \in 1..MaxObjects : WF_vars(i <= Len(s3Objects) /\ TaskStep(i))

\* ============================================== claims: processS3Objects

Objects == 1..Len(s3Objects)

\* C4: at most `concurrency` object goroutines execute ProcessLogs at any
\* time; a goroutine holds a permit from its launch until it releases it on
\* completion.
C4_ConcurrencyCeiling ==
    /\ Cardinality({ i \in Objects : task[i] = "ProcessLogs" }) <= concurrency
    /\ permits = Cardinality({ i \in Objects : task[i] \notin {"notStarted", "done"} })
    /\ permits <= concurrency

\* All permits are held by goroutines inside ProcessLogs while a further
\* object waits to be launched.
C4_Witness ==
    /\ fsPc = "loop"
    /\ fsNext <= Len(s3Objects)
    /\ Cardinality({ i \in Objects : task[i] = "ProcessLogs" }) = concurrency

\* C5: when processS3Objects has returned, no launched goroutine is still
\* executing ProcessLogs or blocked sending its error.
C5_ReturnsAfterAllTasks ==
    fsPc = "returned" =>
        \A i \in Objects : task[i] \notin {"ProcessLogs", "sendErr"}

\* C6: processS3Objects returns nil exactly when no ProcessLogs call returned
\* an error; otherwise it returns the first error received, which names the
\* bucket and key of the object whose ProcessLogs produced it.
C6_FirstErrorReturned ==
    fsPc = "returned" =>
        /\ fsRet.msg = "nil" <=> (\A i \in Objects : plResult[i] # "err")
        /\ fsRet.msg # "nil" =>
            /\ received # <<>>
            /\ plResult[received[1]] = "err"
            /\ fsRet.msg = "error processing logs for"
            /\ fsRet.Bucket = s3Objects[received[1]].Bucket
            /\ fsRet.Key = s3Objects[received[1]].Key
            /\ fsRet.cause = <<"failed to get object", s3Objects[received[1]].Key>>

\* Two objects failed and the error returned is the one of the first of them.
C6_Witness ==
    /\ fsPc = "returned"
    /\ Len(s3Objects) >= 2
    /\ plResult[1] = "err"
    /\ plResult[2] = "err"
    /\ fsRet.msg # "nil"
    /\ fsRet.Key = s3Objects[1].Key

\* C7: if every ProcessLogs call returns, processS3Objects eventually returns.
C7_EventuallyReturns == <>(fsPc = "returned")

\* C8: every launched object goroutine eventually finishes: it signals
\* completion and releases its permit.
C8_EveryTaskFinishes ==
    \A i \in 1..MaxObjects :
        [](i <= Len(s3Objects) /\ task[i] # "notStarted" => <>(task[i] = "done"))

\* ================================================ start-up and one record

CfInit ==
    /\ envGroup \in BOOLEAN
    /\ envStream \in BOOLEAN
    /\ envFields \in FieldsConfigs
    /\ nhPc = "LoadConfigFromEnv"
    /\ nhErr = "none"
    /\ nfResult = [called |-> FALSE, fs |-> NilFields, err |-> NilError]
    /\ fieldStore = NilFields
    /\ included = <<>>
    /\ fetches = 0
    /\ givenRecord = <<>>
    /\ entryCalls = <<>>

InitConfig == CfInit /\ PlIdle /\ FsIdle /\ ScIdle /\ EgIdle /\ HuIdle

plVarsButEnqueued ==
    <<plPc, plRet, objErr, prPc, prEntry, prErr, gzPc, gzLines, pipeBuf, pipeState,
      entryChan, chanClosed, accPc, events, currentBatchSize, counter, sent,
      linesRead>>

\* LoadConfigFromEnv fails on a missing name: NewHandler returns the error.
LoadConfigFails ==
    /\ nhPc = "LoadConfigFromEnv"
    /\ ~envGroup \/ ~envStream
    /\ nhErr' = IF ~envGroup THEN "environment variable LOG_GROUP_NAME is required"
                ELSE "environment variable LOG_STREAM_NAME is required"
    /\ nhPc' = "failed"
    /\ UNCHANGED <<envGroup, envStream, envFields, nfResult, fieldStore, included,
                   fetches, givenRecord, entryCalls>>
    /\ UNCHANGED <<plVars, fsVars, scVars, egVars, huVars>>

LoadConfigOk ==
    /\ nhPc = "LoadConfigFromEnv"
    /\ envGroup /\ envStream
    /\ nhPc' = "NewLogProcessor"
    /\ UNCHANGED <<envGroup, envStream, envFields, nhErr, nfResult, fieldStore,
                   included, fetches, givenRecord, entryCalls>>
    /\ UNCHANGED <<plVars, fsVars, scVars, egVars, huVars>>

\* NewLogProcessor: NewFields, then EnsureLogGroupAndLogStreamExists fails.
NewLogProcessorEnsureFails ==
    /\ nhPc = "NewLogProcessor"
    /\ nfResult' = [called |-> TRUE, fs |-> NewFields(envFields).fs,
                    err |-> NewFields(envFields).err]
    /\ nhErr' = "error creating log group and stream"
    /\ nhPc' = "failed"
    /\ UNCHANGED <<envGroup, envStream, envFields, fieldStore, included, fetches,
                   givenRecord, entryCalls>>
    /\ UNCHANGED <<plVars, fsVars, scVars, egVars, huVars>>

\* NewLogProcessor: fieldStore, _ := NewFields(config.Fields) keeps the pointer
\* and drops the error; EnsureLogGroupAndLogStreamExists succeeds; the
\* processor and the handler are returned.
NewLogProcessorOk ==
    /\ nhPc = "NewLogProcessor"
    /\ nfResult' = [called |-> TRUE, fs |-> NewFields(envFields).fs,
                    err |-> NewFields(envFields).err]
    /\ fieldStore' = NewFields(envFields).fs
    /\ nhErr' = "nil"
    /\ nhPc' = "ready"
    /\ UNCHANGED <<envGroup, envStream, envFields, included, fetches, givenRecord,
                   entryCalls>>
    /\ UNCHANGED <<plVars, fsVars, scVars, egVars, huVars>>

\* IncludeField asked for every index from -1 to len(fieldNames).
CallIncludeField ==
    /\ nhPc = "ready"
    /\ ~fieldStore.isNil
    /\ included = <<>>
    /\ included' = [i \in Indexes |-> IncludeField(fieldStore, i)]
    /\ UNCHANGED <<envGroup, envStream, envFields, nhPc, nhErr, nfResult, fieldStore,
                   fetches, givenRecord, entryCalls>>
    /\ UNCHANGED <<plVars, fsVars, scVars, egVars, huVars>>

\* The handler processes an object: GetObject, then processRecords.
HandlerGetObject ==
    /\ nhPc = "ready"
    /\ fetches' = fetches + 1
    /\ nhPc' = "processRecords"
    /\ UNCHANGED <<envGroup, envStream, envFields, nhErr, nfResult, fieldStore,
                   included, givenRecord, entryCalls>>
    /\ UNCHANGED <<plVars, fsVars, scVars, egVars, huVars>>

\* the record of the next call: any record first, the same one afterwards
NextRecords == IF entryCalls = <<>> THEN Records ELSE {givenRecord}

\* recordToLogEntry reaches its loop: a well-formed record
ReachesProjection(rec) ==
    Len(rec) = Len(fieldNames) /\ ParseTime(rec[2]) # BadTime

\* recordToLogEntry on a well-formed record with a nil field store:
\* IncludeField dereferences the nil pointer.
RecordPanics ==
    /\ nhPc = "processRecords"
    /\ Len(entryCalls) < MaxCalls
    /\ fieldStore.isNil
    /\ \E rec \in NextRecords :
        /\ ReachesProjection(rec)
        /\ givenRecord' = rec
    /\ nhPc' = "panic"
    /\ UNCHANGED <<envGroup, envStream, envFields, nhErr, nfResult, fieldStore,
                   included, fetches, entryCalls>>
    /\ UNCHANGED <<plVars, fsVars, scVars, egVars, huVars>>

\* The body of processRecords' loop for one record, recordToLogEntry
\* returning: an entry is put on the channel, an error ends processRecords.
ProcessRecord ==
    /\ nhPc = "processRecords"
    /\ Len(entryCalls) < MaxCalls
    /\ \E rec \in NextRecords :
        /\ ~(ReachesProjection(rec) /\ fieldStore.isNil)
        /\ givenRecord' = rec
        /\ LET r == recordToLogEntryProjected(rec, fieldStore)
           IN  /\ entryCalls' = Append(entryCalls, r)
               /\ IF r.err = NoRecordError
                  THEN /\ enqueued' = Append(enqueued, r.entry)
                       /\ nhPc' = nhPc
                  ELSE /\ enqueued' = enqueued
                       /\ nhPc' = "returned"
    /\ UNCHANGED <<envGroup, envStream, envFields, nhErr, nfResult, fieldStore,
                   included, fetches>>
    /\ UNCHANGED <<plVarsButEnqueued, fsVars, scVars, egVars, huVars>>

NextConfig ==
    \/ LoadConfigFails
    \/ LoadConfigOk
    \/ NewLogProcessorEnsureFails
    \/ NewLogProcessorOk
    \/ CallIncludeField
    \/ HandlerGetObject
    \/ RecordPanics
    \/ ProcessRecord

SpecConfig == InitConfig /\ [][NextConfig]_vars

\* ------------------------------------------------ claims on the start-up

\* the symbols of the setting that are words
IsWord(x) == x # "," /\ x # " "

\* a word that is no column name
UnknownWord(x) == IsWord(x) /\ \A i \in 1..Len(fieldNames) : fieldNames[i] # x

\* the setting names a field that is not in the schema
NamesUnknownField == \E k \in 1..Len(envFields) : UnknownWord(envFields[k])

ConfigInvalid == ~envGroup \/ ~envStream \/ NamesUnknownField

ConstructionOver == nhPc \notin {"LoadConfigFromEnv", "NewLogProcessor"}

\* C13: a configuration error is fatal before any processing starts: when
\* the field selection names a field that is not in the schema, or a
\* required setting is missing, construction fails with an error and no
\* object is fetched, parsed or sent.
C13_ConfigErrorFatal ==
    (ConfigInvalid /\ ConstructionOver) =>
        /\ nhPc = "failed"
        /\ nhErr # "nil"
        /\ fetches = 0
        /\ entryCalls = <<>>
        /\ enqueued = <<>>

\* the places just outside the pieces of a setting: the commas and both ends
Cuts(c) == {0, Len(c) + 1} \cup { k \in 1..Len(c) : c[k] = "," }

\* the pieces, as pairs of neighbouring cuts
Pieces(c) ==
    { p \in Cuts(c) \X Cuts(c) :
        p[1] < p[2] /\ \A k \in Cuts(c) : ~(p[1] < k /\ k < p[2]) }

\* the places of a piece that hold a word
WordsAt(c, p) == { j \in (p[1] + 1)..(p[2] - 1) : c[j] # " " }

\* a piece is a column name with blanks around it
GoodPiece(c, p) ==
    /\ Cardinality(WordsAt(c, p)) = 1
    /\ \A j \in WordsAt(c, p) : ~UnknownWord(c[j])

\* a valid selection: the empty string, or column names between commas
ValidConfig(c) == c = <<>> \/ \A p \in Pieces(c) : GoodPiece(c, p)

\* the columns a valid selection names
NamedColumns(c) ==
    IF c = <<>> THEN { fieldNames[i] : i \in 1..Len(fieldNames) }
    ELSE { c[j] : j \in { k \in 1..Len(c) : IsWord(c[k]) } }

\* C14: for every valid field-selection string NewFields succeeds and
\* IncludeField(i) is true exactly for the indices of the named columns (all
\* 30 for the empty string), false for every other index in range and for
\* every index outside [0, N).
C14_IncludeExactlyNamed ==
    (nfResult.called /\ ValidConfig(envFields)) =>
        /\ nfResult.err = NilError
        /\ ~nfResult.fs.isNil
        /\ included # <<>> =>
             \A i \in Indexes :
                included[i] <=>
                    /\ 0 <= i
                    /\ i < numFieldNames
                    /\ fieldNames[i + 1] \in NamedColumns(envFields)

C14_Witness ==
    /\ envFields = <<"type", ",", " ", "conn_trace_id">>
    /\ included # <<>>
    /\ included[0]
    /\ included[numFieldNames - 1]
    /\ ~included[1]
    /\ ~included[0 - 1]
    /\ ~included[numFieldNames]

\* a setting of blanks only, the empty one included
Blank(c) == \A k \in 1..Len(c) : c[k] = " "

\* C15: NewFields given an empty or a blank (whitespace-only) selection
\* string succeeds and selects all schema fields.
C15_BlankSelectsAll ==
    (nfResult.called /\ Blank(envFields)) =>
        /\ nfResult.err = NilError
        /\ ~nfResult.fs.isNil
        /\ nfResult.fs.includedFieldsMap = { fieldNames[i] : i \in 1..Len(fieldNames) }

\* the first piece that is no column name, and the piece without the blanks
\* at its ends
FirstBadPiece(c) ==
    CHOOSE p \in Pieces(c) :
        /\ ~GoodPiece(c, p)
        /\ \A q \in Pieces(c) : q[2] <= p[1] => GoodPiece(c, q)

Trimmed(c, p) ==
    IF WordsAt(c, p) = {} THEN <<>>
    ELSE LET lo == CHOOSE j \in WordsAt(c, p) : \A k \in WordsAt(c, p) : j <= k
             hi == CHOOSE j \in WordsAt(c, p) : \A k \in WordsAt(c, p) : k <= j
         IN  SubSeq(c, lo, hi)

\* C16: NewFields given a comma-separated list in which some trimmed token
\* is no schema field name fails on the first such token, in list order,
\* with the error "invalid field name '<token>' provided" naming exactly
\* that token, and returns no selection at all, even when earlier tokens
\* were valid.
C16_FirstInvalidToken ==
    (nfResult.called /\ envFields # <<>> /\ ~ValidConfig(envFields)) =>
        /\ nfResult.err.msg = "invalid field name"
        /\ nfResult.err.token = Trimmed(envFields, FirstBadPiece(envFields))
        /\ nfResult.fs.isNil
        /\ nfResult.fs.includedFieldsMap = {}

C16_Witness ==
    /\ envFields = <<"type", ",", "bogus_field", ",">>
    /\ nfResult.called
    /\ nfResult.err.token = <<"bogus_field">>
    /\ nfResult.fs.isNil

\* ------------------------------------------------ claims on recordToLogEntry

\* the time tokens that are RFC3339
IsTimestamp(token) ==
    token \in {"2024-03-21T16:10:26.071854Z", "2024-03-21T16:10:27Z"}

WellFormed(rec) == Len(rec) = numFieldNames /\ IsTimestamp(rec[2])

\* how many of the calls returned an entry
Produced == Cardinality({ k \in 1..Len(entryCalls) : entryCalls[k].err.msg = "nil" })

\* C17: recordToLogEntry produces a LogEntry if and only if the record has
\* exactly N (30) tokens and the token at index 1 is a valid timestamp; any
\* other length fails with an error stating N and the actual length, an
\* invalid timestamp fails with a timestamp error, and in both failure cases
\* no LogEntry is produced or enqueued for that line.
C17_EntryIffWellFormed ==
    /\ Len(enqueued) = Produced
    /\ \A k \in 1..Len(entryCalls) :
        LET r == entryCalls[k]
        IN  /\ (r.err.msg = "nil") <=> WellFormed(givenRecord)
            /\ r.err.msg = "nil" => /\ r.entry # NoLogEntry
                                    /\ \E j \in 1..Len(enqueued) : enqueued[j] = r.entry
            /\ Len(givenRecord) # numFieldNames =>
                 /\ r.err.msg = "invalid log format"
                 /\ r.err.expected = numFieldNames
                 /\ r.err.got = Len(givenRecord)
                 /\ r.entry = NoLogEntry
            /\ (Len(givenRecord) = numFieldNames /\ ~IsTimestamp(givenRecord[2])) =>
                 /\ r.err.msg = "error parsing timestamp"
                 /\ r.entry = NoLogEntry

C17_Witness ==
    /\ Len(entryCalls) = 1
    /\ Len(givenRecord) = numFieldNames + 1
    /\ entryCalls[1].err.msg = "invalid log format"
    /\ entryCalls[1].err.got = numFieldNames + 1
    /\ enqueued = <<>>
    /\ nhPc = "returned"

\* C18: for a valid record and a field selection, the LogEntry's field map
\* has exactly one key per selected column and no other key, each mapped to
\* the token at that column's index, and projecting the same record through
\* the same selection again yields an identical LogEntry.
C18_ProjectionExact ==
    \A k \in 1..Len(entryCalls) :
        LET r == entryCalls[k]
        IN  r.err.msg = "nil" =>
              /\ DOMAIN r.entry.Data =
                    { fieldNames[i] :
                        i \in { j \in 1..Len(fieldNames) :
                                  fieldNames[j] \in fieldStore.includedFieldsMap } }
              /\ \A i \in 1..Len(fieldNames) :
                    fieldNames[i] \in fieldStore.includedFieldsMap =>
                        r.entry.Data[fieldNames[i]] = givenRecord[i]
              /\ \A j \in 1..Len(entryCalls) : entryCalls[j] = r

C18_Witness ==
    /\ Len(entryCalls) = MaxCalls
    /\ envFields = <<"time", ",", "conn_trace_id">>
    /\ \A k \in 1..Len(entryCalls) :
        /\ entryCalls[k].err.msg = "nil"
        /\ DOMAIN entryCalls[k].entry.Data = {"time", "conn_trace_id"}
        /\ entryCalls[k].entry.Data["conn_trace_id"] = sampleRecord[numFieldNames]

\* ============================================================ SafeCounter

\* the calls a goroutine may make
Increments == {1, 2}
Ops == { [kind |-> "Increment", value |-> n] : n \in Increments }
          \cup {[kind |-> "Value", value |-> 0]}

\* the values the counter starts from
StartValues == {0, 10}

ScInit ==
    /\ mu = 0
    /\ v \in StartValues
    /\ scStart = v
    /\ scPc = [t \in Tasks |-> "idle"]
    /\ scOp = [t \in Tasks |-> NoOp]
    /\ scTmp = [t \in Tasks |-> 0]
    /\ scRet = [t \in Tasks |-> 0 - 1]

InitCounter == ScInit /\ PlIdle /\ FsIdle /\ CfIdle /\ EgIdle /\ HuIdle

\* a mutex that lets everyone in
CanLockAlways(m) == TRUE

\* c.mu.Lock() can proceed: the mutex is unlocked
CanLock(m) == m = 0

\* A goroutine calls Increment(value) or Value().
ScCall(t) ==
    /\ scPc[t] = "idle"
    /\ \E op \in Ops : scOp' = [scOp EXCEPT ![t] = op]
    /\ scPc' = [scPc EXCEPT ![t] = "Lock"]
    /\ UNCHANGED <<mu, v, scStart, scTmp, scRet>>
    /\ UNCHANGED <<plVars, fsVars, cfVars, egVars, huVars>>

\* c.mu.Lock()
ScLock(t) ==
    /\ scPc[t] = "Lock"
    /\ CanLock(mu)
    /\ mu' = t
    /\ scPc' = [scPc EXCEPT ![t] = IF scOp[t].kind = "Increment" THEN "Load" ELSE "Read"]
    /\ UNCHANGED <<v, scStart, scOp, scTmp, scRet>>
    /\ UNCHANGED <<plVars, fsVars, cfVars, egVars, huVars>>

\* c.v += value, first half: c.v is read
ScLoad(t) ==
    /\ scPc[t] = "Load"
    /\ scTmp' = [scTmp EXCEPT ![t] = v]
    /\ scPc' = [scPc EXCEPT ![t] = "Store"]
    /\ UNCHANGED <<mu, v, scStart, scOp, scRet>>
    /\ UNCHANGED <<plVars, fsVars, cfVars, egVars, huVars>>

\* c.v += value, second half: the sum is written
ScStore(t) ==
    /\ scPc[t] = "Store"
    /\ v' = scTmp[t] + scOp[t].value
    /\ scPc' = [scPc EXCEPT ![t] = "Unlock"]
    /\ UNCHANGED <<mu, scStart, scOp, scTmp, scRet>>
    /\ UNCHANGED <<plVars, fsVars, cfVars, egVars, huVars>>

\* return c.v: the value is read, the deferred Unlock comes after
ScRead(t) ==
    /\ scPc[t] = "Read"
    /\ scRet' = [scRet EXCEPT ![t] = v]
    /\ scPc' = [scPc EXCEPT ![t] = "Unlock"]
    /\ UNCHANGED <<mu, v, scStart, scOp, scTmp>>
    /\ UNCHANGED <<plVars, fsVars, cfVars, egVars, huVars>>

\* c.mu.Unlock(); the call returns
ScUnlock(t) ==
    /\ scPc[t] = "Unlock"
    /\ mu' = 0
    /\ scPc' = [scPc EXCEPT ![t] = "done"]
    /\ UNCHANGED <<v, scStart, scOp, scTmp, scRet>>
    /\ UNCHANGED <<plVars, fsVars, cfVars, egVars, huVars>>

NextCounter ==
    \/ \E t \in Tasks : ScCall(t)
    \/ \E t \in Tasks : ScLock(t)
    \/ \E t \in Tasks : ScLoad(t)
    \/ \E t \in Tasks : ScStore(t)
    \/ \E t \in Tasks : ScRead(t)
    \/ \E t \in Tasks : ScUnlock(t)

SpecCounter == InitCounter /\ [][NextCounter]_vars

\* ---------------------------------------------------- claims: SafeCounter

\* the sum of the increments of the goroutines in S
RECURSIVE SumOfIncrements(_)
SumOfIncrements(S) ==
    IF S = {} THEN 0
    ELSE LET t == CHOOSE x \in S : TRUE
         IN  scOp[t].value + SumOfIncrements(S \ {t})

Incrementers == { t \in Tasks : scOp[t].kind = "Increment" }

\* the goroutines whose Increment has written its sum
Incremented == { t \in Incrementers : scPc[t] \in {"Unlock", "done"} }

\* C23: no increment is lost under any interleaving: whenever no call is
\* inside the lock the counter is its first value plus the sum of the
\* increments made, so Value() after all of them returns that total; and a
\* concurrent Value() returns the first value plus the sum of some subset of
\* the increments called, never anything else.
C23_NoLostIncrement ==
    /\ (\A t \in Tasks : scPc[t] \in {"idle", "Lock", "done"}) =>
          v = scStart + SumOfIncrements(Incremented)
    /\ (\A t \in Tasks : scPc[t] = "done") =>
          v = scStart + SumOfIncrements(Incrementers)
    /\ \A t \in Tasks :
          scRet[t] # 0 - 1 =>
             \E S \in SUBSET Incrementers : scRet[t] = scStart + SumOfIncrements(S)

\* Two increments and a Value() in between: all have returned, Value() saw
\* one increment and not the other.
C23_Witness ==
    /\ \A t \in Tasks : scPc[t] = "done"
    /\ Cardinality(Incrementers) >= 2
    /\ \E t \in Tasks :
          /\ scOp[t].kind = "Value"
          /\ scRet[t] > scStart
          /\ scRet[t] < v

\* ======================================= EnsureLogGroupAndLogStreamExists

\* logConfig.LogGroupName and logConfig.LogStreamName, and a name that is
\* neither
logGroupName == "group"
logStreamName == "stream"
GroupNames == {logGroupName, "other-group"}
StreamNames == {logStreamName, "other-stream"}

EgInit ==
    /\ egPc = "DescribeLogGroups"
    /\ egGroups \in SUBSET GroupNames
    /\ egStreams \in SUBSET StreamNames
    /\ egCalls = <<>>
    /\ egRets = <<>>

InitEnsure == EgInit /\ PlIdle /\ FsIdle /\ CfIdle /\ ScIdle /\ HuIdle

\* the run in progress, or the one about to start
CurrentRun == Len(egRets) + 1

ApiCall(api, names, ok) ==
    [run |-> CurrentRun, api |-> api, names |-> names, ok |-> ok]

\* a search of the result that never finds the name
ListedNever(names, name) == FALSE

\* the loop over resp.LogGroups / resp.LogStreams: the name is in the result
Listed(names, name) == name \in names

\* DescribeLogGroups fails: ensureLogGroupExists returns the error, and so
\* does EnsureLogGroupAndLogStreamExists.
EgDescribeLogGroupsFails ==
    /\ egPc = "DescribeLogGroups"
    /\ egCalls' = Append(egCalls, ApiCall("DescribeLogGroups", {}, FALSE))
    /\ egRets' = Append(egRets, "DescribeLogGroups")
    /\ egPc' = "returned"
    /\ UNCHANGED <<egGroups, egStreams>>
    /\ UNCHANGED <<plVars, fsVars, cfVars, scVars, huVars>>

\* DescribeLogGroups returns the groups of the sink; the name is looked for.
EgDescribeLogGroups ==
    /\ egPc = "DescribeLogGroups"
    /\ egCalls' = Append(egCalls, ApiCall("DescribeLogGroups", egGroups, TRUE))
    /\ egPc' = IF Listed(egGroups, logGroupName)
               THEN "DescribeLogStreams" ELSE "CreateLogGroup"
    /\ UNCHANGED <<egGroups, egStreams, egRets>>
    /\ UNCHANGED <<plVars, fsVars, cfVars, scVars, huVars>>

EgCreateLogGroupFails ==
    /\ egPc = "CreateLogGroup"
    /\ egCalls' = Append(egCalls, ApiCall("CreateLogGroup", {}, FALSE))
    /\ egRets' = Append(egRets, "CreateLogGroup")
    /\ egPc' = "returned"
    /\ UNCHANGED <<egGroups, egStreams>>
    /\ UNCHANGED <<plVars, fsVars, cfVars, scVars, huVars>>

EgCreateLogGroup ==
    /\ egPc = "CreateLogGroup"
    /\ egCalls' = Append(egCalls, ApiCall("CreateLogGroup", {}, TRUE))
    /\ egGroups' = egGroups \cup {logGroupName}
    /\ egPc' = "DescribeLogStreams"
    /\ UNCHANGED <<egStreams, egRets>>
    /\ UNCHANGED <<plVars, fsVars, cfVars, scVars, huVars>>

EgDescribeLogStreamsFails ==
    /\ egPc = "DescribeLogStreams"
    /\ egCalls' = Append(egCalls, ApiCall("DescribeLogStreams", {}, FALSE))
    /\ egRets' = Append(egRets, "DescribeLogStreams")
    /\ egPc' = "returned"
    /\ UNCHANGED <<egGroups, egStreams>>
    /\ UNCHANGED <<plVars, fsVars, cfVars, scVars, huVars>>

\* DescribeLogStreams returns the streams of the group; the name is looked
\* for, and when it is there nil is returned.
EgDescribeLogStreams ==
    /\ egPc = "DescribeLogStreams"
    /\ egCalls' = Append(egCalls, ApiCall("DescribeLogStreams", egStreams, TRUE))
    /\ IF Listed(egStreams, logStreamName)
       THEN /\ egRets' = Append(egRets, "nil")
            /\ egPc' = "returned"
       ELSE /\ egRets' = egRets
            /\ egPc' = "CreateLogStream"
    /\ UNCHANGED <<egGroups, egStreams>>
    /\ UNCHANGED <<plVars, fsVars, cfVars, scVars, huVars>>

EgCreateLogStreamFails ==
    /\ egPc = "CreateLogStream"
    /\ egCalls' = Append(egCalls, ApiCall("CreateLogStream", {}, FALSE))
    /\ egRets' = Append(egRets, "CreateLogStream")
    /\ egPc' = "returned"
    /\ UNCHANGED <<egGroups, egStreams>>
    /\ UNCHANGED <<plVars, fsVars, cfVars, scVars, huVars>>

EgCreateLogStream ==
    /\ egPc = "CreateLogStream"
    /\ egCalls' = Append(egCalls, ApiCall("CreateLogStream", {}, TRUE))
    /\ egStreams' = egStreams \cup {logStreamName}
    /\ egRets' = Append(egRets, "nil")
    /\ egPc' = "returned"
    /\ UNCHANGED <<egGroups>>
    /\ UNCHANGED <<plVars, fsVars, cfVars, scVars, huVars>>

\* EnsureLogGroupAndLogStreamExists is called again, against the same sink.
EgRunAgain ==
    /\ egPc = "returned"
    /\ Len(egRets) < MaxRuns
    /\ egPc' = "DescribeLogGroups"
    /\ UNCHANGED <<egGroups, egStreams, egCalls, egRets>>
    /\ UNCHANGED <<plVars, fsVars, cfVars, scVars, huVars>>

NextEnsure ==
    \/ EgDescribeLogGroupsFails
    \/ EgDescribeLogGroups
    \/ EgCreateLogGroupFails
    \/ EgCreateLogGroup
    \/ EgDescribeLogStreamsFails
    \/ EgDescribeLogStreams
    \/ EgCreateLogStreamFails
    \/ EgCreateLogStream
    \/ EgRunAgain

SpecEnsure == InitEnsure /\ [][NextEnsure]_vars

\* ------------------------- claims: EnsureLogGroupAndLogStreamExists

\* the places in the history of the calls of one API in one run
CallsAt(r, api) ==
    { k \in 1..Len(egCalls) : egCalls[k].run = r /\ egCalls[k].api = api }

Made(r, api) == CallsAt(r, api) # {}

Succeeded(r, api) == \E k \in CallsAt(r, api) : egCalls[k].ok

\* the describe call of the run answered, without the name
AnsweredWithout(r, api, name) ==
    \E k \in CallsAt(r, api) : egCalls[k].ok /\ name \notin egCalls[k].names

RunFinished(r) == r <= Len(egRets)

\* C26: CreateLogGroup is called if and only if the group name is absent
\* from the DescribeLogGroups result, CreateLogStream if and only if the
\* stream name is absent from the DescribeLogStreams result; the stream is
\* looked at only after the group step succeeded; the first error met is
\* returned and ends the run; and a run that follows a run which returned nil
\* makes no create call.
C26_IdempotentBootstrap ==
    \A r \in 1..MaxRuns :
        /\ \A api \in {"DescribeLogGroups", "CreateLogGroup", "DescribeLogStreams",
                       "CreateLogStream"} : Cardinality(CallsAt(r, api)) <= 1
        /\ Made(r, "CreateLogGroup") =>
              AnsweredWithout(r, "DescribeLogGroups", logGroupName)
        /\ Made(r, "CreateLogStream") =>
              AnsweredWithout(r, "DescribeLogStreams", logStreamName)
        /\ Made(r, "DescribeLogStreams") =>
              /\ Succeeded(r, "DescribeLogGroups")
              /\ \/ ~AnsweredWithout(r, "DescribeLogGroups", logGroupName)
                 \/ Succeeded(r, "CreateLogGroup")
              /\ \A k \in CallsAt(r, "DescribeLogStreams") :
                    \A j \in CallsAt(r, "DescribeLogGroups") \cup CallsAt(r, "CreateLogGroup") :
                        j < k
        /\ RunFinished(r) =>
              /\ AnsweredWithout(r, "DescribeLogGroups", logGroupName) =>
                    Made(r, "CreateLogGroup")
              /\ AnsweredWithout(r, "DescribeLogStreams", logStreamName) =>
                    Made(r, "CreateLogStream")
              /\ \A k \in 1..Len(egCalls) :
                    (egCalls[k].run = r /\ ~egCalls[k].ok) =>
                        /\ egRets[r] = egCalls[k].api
                        /\ \A j \in 1..Len(egCalls) : egCalls[j].run = r => j <= k
              /\ egRets[r] = "nil" <=>
                    \A k \in 1..Len(egCalls) : egCalls[k].run = r => egCalls[k].ok
              /\ egRets[r] = "nil" =>
                    /\ logGroupName \in egGroups
                    /\ logStreamName \in egStreams
        /\ (r >= 2 /\ RunFinished(r - 1) /\ egRets[r - 1] = "nil") =>
              /\ ~Made(r, "CreateLogGroup")
              /\ ~Made(r, "CreateLogStream")

\* A first run created the group and the stream, a second run found both.
C26_Witness ==
    /\ Len(egRets) >= 2
    /\ egRets[1] = "nil"
    /\ egRets[2] = "nil"
    /\ Made(1, "CreateLogGroup")
    /\ Made(1, "CreateLogStream")
    /\ Made(2, "DescribeLogGroups")
    /\ Made(2, "DescribeLogStreams")
    /\ ~Made(2, "CreateLogGroup")
    /\ ~Made(2, "CreateLogStream")

\* ============================================================ HandleS3URL

\* The URL is a sequence of symbols: a scheme, a name without a slash in it,
\* or a slash.  Only a scheme holds the characters "s3://".
Schemes == {"s3://", "http://"}
UrlSymbols == {"logs", "/"}
Urls ==
    SeqsUpTo(UrlSymbols, MaxUrlLen)
        \cup { <<h>> \o r : h \in Schemes, r \in SeqsUpTo(UrlSymbols, MaxUrlLen) }

\* the string a sequence of symbols spells
RECURSIVE Join(_)
Join(symbols) ==
    IF symbols = <<>> THEN "" ELSE Head(symbols) \o Join(Tail(symbols))

\* ParseS3URL: the prefix test, TrimPrefix, the first "/" splits bucket from
\* prefix
ParseS3URL(url) ==
    IF url = <<>> \/ Head(url) # "s3://"
    THEN [bucket |-> "", prefix |-> "", err |-> "invalid S3 URL, missing 's3://' prefix"]
    ELSE LET trimmedS3URL == Tail(url)
         IN  IF \A k \in 1..Len(trimmedS3URL) : trimmedS3URL[k] # "/"
             THEN [bucket |-> "", prefix |-> "",
                   err |-> "invalid S3 URL, no '/' found after bucket name"]
             ELSE LET splitPos == CHOOSE k \in 1..Len(trimmedS3URL) :
                                    /\ trimmedS3URL[k] = "/"
                                    /\ \A j \in 1..(k - 1) : trimmedS3URL[j] # "/"
                  IN  [bucket |-> Join(SubSeq(trimmedS3URL, 1, splitPos - 1)),
                       prefix |-> Join(SubSeq(trimmedS3URL, splitPos + 1,
                                              Len(trimmedS3URL))),
                       err |-> "nil"]

HuInit ==
    /\ huPc = "ParseS3URL"
    /\ huUrl \in Urls
    /\ huBucket = ""
    /\ huPrefix = ""
    /\ huToken = 0
    /\ huRequests = <<>>
    /\ huResponses = <<>>
    /\ huObjects = <<>>
    /\ huRet = "none"

InitUrl == HuInit /\ FsIdle /\ PlIdle /\ CfIdle /\ ScIdle /\ EgIdle

\* ParseS3URL fails: HandleS3URL returns the error.
HuParseFails ==
    /\ huPc = "ParseS3URL"
    /\ ParseS3URL(huUrl).err # "nil"
    /\ huRet' = "failed to parse S3 URL"
    /\ huPc' = "returned"
    /\ UNCHANGED <<huUrl, huBucket, huPrefix, huToken, huRequests, huResponses,
                   huObjects>>
    /\ UNCHANGED <<plVars, fsVars, cfVars, scVars, egVars>>

HuParseOk ==
    /\ huPc = "ParseS3URL"
    /\ ParseS3URL(huUrl).err = "nil"
    /\ huBucket' = ParseS3URL(huUrl).bucket
    /\ huPrefix' = ParseS3URL(huUrl).prefix
    /\ huPc' = "ListObjectsV2"
    /\ UNCHANGED <<huUrl, huToken, huRequests, huResponses, huObjects, huRet>>
    /\ UNCHANGED <<plVars, fsVars, cfVars, scVars, egVars>>

\* the input of the next ListObjectsV2 call
ListInput ==
    [Bucket |-> huBucket, Prefix |-> huPrefix, ContinuationToken |-> huToken]

\* ListObjectsV2 fails: HandleS3URL returns the error.
HuListFails ==
    /\ huPc = "ListObjectsV2"
    /\ huRequests' = Append(huRequests, ListInput)
    /\ huRet' = "failed to list objects"
    /\ huPc' = "returned"
    /\ UNCHANGED <<huUrl, huBucket, huPrefix, huToken, huResponses, huObjects>>
    /\ UNCHANGED <<plVars, fsVars, cfVars, scVars, egVars>>

\* The pages S3 may answer with: some of the keys still to come (the keys
\* are numbered as listed), truncated with a token for the next page, or not
\* truncated (IsTruncated false or nil) and without a token.
Pages ==
    { [Keys |-> [i \in 1..n |-> Len(huObjects) + i],
       IsTruncated |-> t,
       NextContinuationToken |-> IF t = "true" THEN Len(huResponses) + 2 ELSE 0] :
        n \in 0..(MaxObjects - Len(huObjects)),
        t \in IF Len(huResponses) + 1 < MaxPages
              THEN {"true", "false", "nil"} ELSE {"false", "nil"} }

\* a loop that asks for the first page again
NextTokenNil(resp) == 0

\* continuationToken = resp.NextContinuationToken
NextToken(resp) == resp.NextContinuationToken

\* resp.IsTruncated == nil || !*resp.IsTruncated
LastPage(resp) == resp.IsTruncated = "nil" \/ resp.IsTruncated # "true"

\* the S3ObjectInfo appended for each item of resp.Contents
ObjectsOf(bucket, keys) ==
    [i \in 1..Len(keys) |-> [Bucket |-> bucket, Key |-> keys[i]]]

\* One iteration of the listing loop: ListObjectsV2 answers, the keys are
\* appended, and the loop ends on the last page or goes on with the token.
HuListPage ==
    /\ huPc = "ListObjectsV2"
    /\ huRequests' = Append(huRequests, ListInput)
    /\ \E resp \in Pages :
        /\ huResponses' = Append(huResponses, resp)
        /\ huObjects' = huObjects \o ObjectsOf(huBucket, resp.Keys)
        /\ IF LastPage(resp)
           THEN /\ huPc' = "call"
                /\ huToken' = huToken
           ELSE /\ huPc' = "ListObjectsV2"
                /\ huToken' = NextToken(resp)
    /\ UNCHANGED <<huUrl, huBucket, huPrefix, huRet>>
    /\ UNCHANGED <<plVars, fsVars, cfVars, scVars, egVars>>

\* h.processS3Objects(s3Objects) is entered.
HuProcess ==
    /\ huPc = "call"
    /\ huPc' = "processS3Objects"
    /\ s3Objects' = huObjects
    /\ fsPc' = "loop"
    /\ UNCHANGED <<fsNext, fsRet, task, plResult, permits, wgCount, wtPc,
                   errsClosed, received>>
    /\ UNCHANGED <<huUrl, huBucket, huPrefix, huToken, huRequests, huResponses,
                   huObjects, huRet>>
    /\ UNCHANGED <<plVars, cfVars, scVars, egVars>>

\* processS3Objects has returned: HandleS3URL returns what it returned.
HuReturn ==
    /\ huPc = "processS3Objects"
    /\ fsPc = "returned"
    /\ huRet' = fsRet.msg
    /\ huPc' = "returned"
    /\ UNCHANGED <<huUrl, huBucket, huPrefix, huToken, huRequests, huResponses,
                   huObjects>>
    /\ UNCHANGED <<plVars, fsVars, cfVars, scVars, egVars>>

NextUrl ==
    \/ HuParseFails
    \/ HuParseOk
    \/ HuListFails
    \/ HuListPage
    \/ HuProcess
    \/ HuReturn
    \/ Launch
    \/ LoopDone
    \/ \E i \in 1..MaxObjects : i <= Len(s3Objects) /\ TaskProcessLogsNil(i)
    \/ \E i \in 1..MaxObjects : i <= Len(s3Objects) /\ TaskProcessLogsErr(i)
    \/ \E i \in 1..MaxObjects : i <= Len(s3Objects) /\ TaskSendErr(i)
    \/ \E i \in 1..MaxObjects : i <= Len(s3Objects) /\ TaskWgDone(i)
    \/ \E i \in 1..MaxObjects : i <= Len(s3Objects) /\ TaskRelease(i)
    \/ WaiterClose
    \/ RangeClosed

SpecUrl == InitUrl /\ [][NextUrl]_vars

\* ---------------------------------------------------- claims: HandleS3URL

\* a URL ParseS3URL accepts: the scheme s3:// and a slash after it
ValidUrl(url) ==
    /\ Len(url) >= 1
    /\ url[1] = "s3://"
    /\ \E k \in 2..Len(url) : url[k] = "/"

\* the keys of the pages received, in order
RECURSIVE ListedKeys(_)
ListedKeys(resps) ==
    IF resps = <<>> THEN <<>> ELSE Head(resps).Keys \o ListedKeys(Tail(resps))

ListingComplete ==
    /\ huResponses # <<>>
    /\ Len(huRequests) = Len(huResponses)
    /\ huResponses[Len(huResponses)].IsTruncated # "true"

\* ProcessLogs has been called for the i-th object
Handed(i) == task[i] # "notStarted"

NothingProcessed ==
    /\ fsPc = "idle"
    /\ s3Objects = <<>>
    /\ \A i \in 1..MaxObjects : ~Handed(i)

====
